---- MODULE Spec2Model ----
(***************************************************************************)
(* Model of the validation optimizer of the e-commerce data pipeline      *)
(* (src/validation_optimization.py, class ValidationOptimizer) and of its *)
(* caller (src/main.py, run_optimized_validation).                        *)
(*                                                                         *)
(* Four specifications share the optimizer's state:                       *)
(*   SpecDetect  the change detector and the fingerprint store, called    *)
(*               by one caller, statement by statement, under every       *)
(*               selective_validation configuration;                      *)
(*   SpecCache   the result cache, called sequentially, with a clock;     *)
(*   Spec        the workers of a pool running the whole pipeline         *)
(*               concurrently on one shared optimizer, under the default  *)
(*               configuration;                                           *)
(*   SpecRun     run_optimized_validation called again and again, each    *)
(*               run on an optimizer of its own.                          *)
(*                                                                         *)
(* Four more are of the alert manager (src/monitoring_alerts.py, class    *)
(* AlertManager):                                                          *)
(*   SpecThreshold       check_thresholds and determine_severity, called  *)
(*                       on summaries under several configurations;       *)
(*   SpecEscalation      evaluations, sweeps and acknowledgements of      *)
(*                       AlertRecords while the clock advances;           *)
(*   SpecEscalationFair  the same, with fair sweeps and a fair clock.     *)
(*   SpecHistory         appends to the alert history and saves of it.    *)
(*                                                                         *)
(* Two more are of the optimizer:                                         *)
(*   SpecKeys      the fingerprint store and the result cache, called     *)
(*                 with names that hold the separator "_";                *)
(*   SpecSampling  the sampling selector, _apply_sampling, under every    *)
(*                 sampling configuration explored.                       *)
(***************************************************************************)
EXTENDS FiniteSets, Integers, Sequences, TLC

VARIABLES
    config,         \* self.config["optimization"], read-only after construction
    row_counts,     \* self.row_counts:    key -> int
    schema_hashes,  \* self.schema_hashes: key -> md5 hex digest or None
    data_hashes,    \* self.data_hashes:   key -> md5 hex digest or None
    cache,          \* self.cache: key -> {"result", "timestamp"}
    cache_order,    \* the keys of cache, oldest insertion first
    now,            \* datetime.datetime.now().timestamp(), in whole seconds
    last,           \* the last method call made on the optimizer and what it returned
    pc,             \* each caller's position in the method or pipeline it runs
    task,           \* each caller's arguments and locals
    status,         \* what each caller's last run of the pipeline was reported as
    alert_config,   \* AlertManager.config, read-only after construction
    alerts,         \* the AlertRecords of the alert manager, oldest first
    alert_history   \* AlertManager.alert_history, oldest entry first

vars == <<config, row_counts, schema_hashes, data_hashes, cache, cache_order,
          now, last, pc, task, status, alert_config, alerts, alert_history>>

alertVars == <<alert_config, alerts, alert_history>>

storeVars == <<row_counts, schema_hashes, data_hashes>>
cacheVars == <<cache, cache_order>>
workerVars == <<pc, task, status>>

----------------------------------------------------------------------------
(* Bounds of the model *)

NumSchemas == 2     \* distinct schemas a dataset may have
NumContents == 2    \* distinct row contents a dataset may have
NumSamples == 2     \* distinct random samples df.sample may draw from one content
MaxTime == 4        \* the clock runs from 0 to MaxTime seconds
TtlSeconds == 2     \* caching.ttl_seconds of the configurations explored
MaxCacheEntries == 2 \* caching.max_cache_entries of the configurations explored

(* Program constants *)

RowCountThresholdNum == 5   \* row_count_threshold 0.05 = 5 / 100
RowCountThresholdDen == 100

----------------------------------------------------------------------------
(* Values *)

SampleSize == 1000          \* _compute_data_hash(df, sample_size=1000)

None == <<"None">>

\* hashlib.md5(s.encode()).hexdigest(): a digest that differs whenever the text differs
MD5(s) == <<"md5", s>>

Layers == {"bronze"}
Datasets == {"orders", "inventory"}

\* Row counts: an empty dataset, a base count, and the base count changed by
\* exactly the threshold and by just more than it
RowCounts == {0, 100, 105, 106}

\* A frame with more rows than the hashing sample size
LargeFrame == [rows |-> 2 * SampleSize, schema |-> 1, content |-> 1]

\* A DataFrame, as far as the optimizer looks at it
DataFrames ==
    [rows : RowCounts, schema : 1 .. NumSchemas, content : 1 .. NumContents]
    \cup {LargeFrame}

Abs(x) == IF x < 0 THEN 0 - x ELSE x

\* Python dict helpers
EmptyDict == [k \in {} |-> None]
DictSet(d, k, v) == [x \in (DOMAIN d) \cup {k} |-> IF x = k THEN v ELSE d[x]]
DictDel(d, k) == [x \in (DOMAIN d) \ {k} |-> d[x]]

\* key = f"{layer}_{dataset}"
Key(layer, dataset) == layer \o "_" \o dataset

\* key = f"{layer}_{dataset}_{expectation_suite_name}"
CacheKey(layer, dataset, suite) == layer \o "_" \o dataset \o "_" \o suite

----------------------------------------------------------------------------
(* The fingerprint computer *)

\* _compute_schema_hash: the md5 of str(df.schema), or None when that raises
compute_schema_hash_outcomes(df) == {MD5(<<"schema", df.schema>>), None}

\* Lines 194-200: the CSV text pdf.sort_values(...).to_csv(index=False) of the
\* rows of df drawn as `sample`, sample 0 being the whole frame.  The
\* text has the header and one line for each row, so that frames of different
\* row counts never share it, and the text of an empty frame is the header
\* alone, whatever content the frame is said to have.  The schemas of the model
\* have the same column names and differ in what str(df.schema) shows beside
\* them (a field's nullability), so that they share the header.
csv_text(df, sample) ==
    <<"csv", df.rows, IF df.rows = 0 THEN 0 ELSE df.content, sample>>

\* _compute_data_hash: the md5 of the sorted CSV text of the whole frame when it
\* has at most sample_size rows, of an unseeded random sample of it otherwise;
\* None when anything raises.
compute_data_hash_outcomes(df) ==
    (IF df.rows > SampleSize
        THEN {MD5(csv_text(df, s)) : s \in 1 .. NumSamples}
        ELSE {MD5(csv_text(df, 0))})
    \cup {None}

----------------------------------------------------------------------------
(* The change detector *)

\* Lines 245-261: does the row-count check return True
row_count_forces_validation(sv, rcs, key, current_row_count) ==
    /\ sv.check_row_count_changes
    /\ key \in DOMAIN rcs
    /\ IF rcs[key] > 0
          THEN Abs(current_row_count - rcs[key]) * RowCountThresholdDen
                   > RowCountThresholdNum * rcs[key]
          ELSE TRUE

\* A comparison that would not look at the schema hash
schema_change_unchecked(sv, shs, key, current_schema_hash) == FALSE

\* Lines 264-272: does the schema check return True
schema_change_forces_validation(sv, shs, key, current_schema_hash) ==
    /\ sv.check_schema_changes
    /\ key \in DOMAIN shs
    /\ current_schema_hash # shs[key]

\* Lines 275-283: does the data-hash check return True
data_change_forces_validation(sv, dhs, key, current_data_hash) ==
    /\ sv.check_data_hash
    /\ key \in DOMAIN dhs
    /\ current_data_hash # dhs[key]

\* Lines 286-290: what _should_validate returns when no check returned True
unchanged_data_validates(sv) == ~sv.skip_unchanged_data

----------------------------------------------------------------------------
(* Configurations *)

\* DEFAULT_CONFIG["optimization"]["selective_validation"], the threshold apart
DefaultSelective ==
    [enabled |-> TRUE, check_data_hash |-> TRUE, check_schema_changes |-> TRUE,
     check_row_count_changes |-> TRUE, skip_unchanged_data |-> TRUE]

\* The configurations explored: every combination of the three checks with
\* skip_unchanged_data on, the default with skip_unchanged_data off, and the
\* default with selective validation disabled
SelectiveConfigs ==
    [enabled : {TRUE}, check_data_hash : BOOLEAN, check_schema_changes : BOOLEAN,
     check_row_count_changes : BOOLEAN, skip_unchanged_data : {TRUE}]
    \cup {[DefaultSelective EXCEPT !.skip_unchanged_data = FALSE],
          [DefaultSelective EXCEPT !.enabled = FALSE]}

\* DEFAULT_CONFIG["optimization"]["caching"], with the model's ttl and capacity
DefaultCaching ==
    [enabled |-> TRUE, cache_validation_results |-> TRUE,
     ttl_seconds |-> TtlSeconds, max_cache_entries |-> MaxCacheEntries]

CachingConfigs ==
    [enabled : BOOLEAN, cache_validation_results : BOOLEAN,
     ttl_seconds : {TtlSeconds}, max_cache_entries : {MaxCacheEntries}]

----------------------------------------------------------------------------
(* The result cache *)

\* A ValidationOutcome, as far as the optimizer and its caller look at it
Outcomes == {<<"result", TRUE>>, <<"result", FALSE>>}

\* suite_name of run_optimized_validation: f"{dataset}_{layer}_suite"
suite_name(layer, dataset) == dataset \o "_" \o layer \o "_suite"

Suites == {suite_name(l, d) : l \in Layers, d \in Datasets}

\* A lookup that would remove the expired entry it finds
get_cached_result_removing(c, ch, t, key) ==
    IF ~c.enabled THEN [result |-> None, cache |-> ch]
    ELSE IF key \notin DOMAIN ch THEN [result |-> None, cache |-> ch]
    ELSE IF t - ch[key].timestamp > c.ttl_seconds
        THEN [result |-> None, cache |-> DictDel(ch, key)]
    ELSE [result |-> ch[key].result, cache |-> ch]

\* A lookup that would treat an entry as expired from the instant its ttl has elapsed
get_cached_result_exclusive(c, ch, t, key) ==
    IF ~c.enabled THEN [result |-> None, cache |-> ch]
    ELSE IF key \notin DOMAIN ch THEN [result |-> None, cache |-> ch]
    ELSE IF t - ch[key].timestamp >= c.ttl_seconds THEN [result |-> None, cache |-> ch]
    ELSE [result |-> ch[key].result, cache |-> ch]

\* _get_cached_result at time t: what it returns and the cache it leaves
get_cached_result(c, ch, t, key) ==
    IF ~c.enabled THEN [result |-> None, cache |-> ch]
    ELSE IF key \notin DOMAIN ch THEN [result |-> None, cache |-> ch]
    ELSE IF t - ch[key].timestamp > c.ttl_seconds THEN [result |-> None, cache |-> ch]
    ELSE [result |-> ch[key].result, cache |-> ch]

\* The guard of _cache_validation_result (lines 417-418): is the result stored at all
caching_allowed(c) == c.enabled /\ c.cache_validation_results

Remove(seq, k) == SelectSeq(seq, LAMBDA x : x # k)

\* A put that would evict the newest entry instead of the oldest
cache_put_evict_newest(c, ch, order, t, key, result) ==
    LET full == key \notin DOMAIN ch /\ Len(order) >= c.max_cache_entries
        victim == order[Len(order)]
        kept == IF full THEN DictDel(ch, victim) ELSE ch
        keptOrder == IF full THEN Remove(order, victim) ELSE order
    IN  [cache |-> DictSet(kept, key, [result |-> result, timestamp |-> t]),
         order |-> Append(Remove(keptOrder, key), key)]

\* A put that would store the entry without evicting any
cache_put_unbounded(c, ch, order, t, key, result) ==
    [cache |-> DictSet(ch, key, [result |-> result, timestamp |-> t]),
     order |-> Append(Remove(order, key), key)]

\* The body of _cache_validation_result: when a new key would take the store past
\* max_cache_entries the oldest-inserted entry is evicted, then the entry is stored
\* with the time of the put.
cache_put(c, ch, order, t, key, result) ==
    LET full == key \notin DOMAIN ch /\ Len(order) >= c.max_cache_entries
        victim == Head(order)
        kept == IF full THEN DictDel(ch, victim) ELSE ch
        keptOrder == IF full THEN Remove(order, victim) ELSE order
    IN  [cache |-> DictSet(kept, key, [result |-> result, timestamp |-> t]),
         order |-> Append(Remove(keptOrder, key), key)]

----------------------------------------------------------------------------
(* The fingerprint store *)

\* An update that would not store the data hash
update_data_hash_skipped(dhs, key, data_hash) == dhs

\* _update_data_metadata, line 304: self.row_counts[key] = df.count()
update_row_count(rcs, key, rows) == DictSet(rcs, key, rows)

\* _update_data_metadata, line 307: self.schema_hashes[key] = self._compute_schema_hash(df)
update_schema_hash(shs, key, schema_hash) == DictSet(shs, key, schema_hash)

\* _update_data_metadata, line 310: self.data_hashes[key] = self._compute_data_hash(df)
update_data_hash(dhs, key, data_hash) == DictSet(dhs, key, data_hash)

----------------------------------------------------------------------------
(* The callers of the optimizer: the workers of the pool, of which the      *)
(* sequential specifications let none or one run                            *)

Workers == {"w1", "w2"}

NoFingerprint == [rows |-> 0, schema_hash |-> None, data_hash |-> None]

\* A caller's arguments (layer, dataset, suite, the frame df) and locals: fp (what
\* df.count(), _compute_schema_hash(df) and _compute_data_hash(df) return for the
\* frame during the call), skipped (the detector said skip), result (the outcome
\* in hand), raised (the executor failed), wrote (this run has written to the
\* stores), report and alerts (the --report and --alerts flags of the run).  The
\* arguments are dropped when the run returns.
NoFrame == [rows |-> 0, schema |-> 0, content |-> 0]

NoTask ==
    [layer |-> "", dataset |-> "", suite |-> "", df |-> NoFrame, fp |-> NoFingerprint,
     skipped |-> FALSE, result |-> None, raised |-> FALSE, wrote |-> FALSE,
     report |-> FALSE, alerts |-> FALSE]

\* What is left of a task when its run has returned
Returned(t) ==
    [NoTask EXCEPT !.skipped = t.skipped, !.raised = t.raised, !.wrote = t.wrote]

InitWorkers ==
    /\ pc = [w \in Workers |-> "idle"]
    /\ task = [w \in Workers |-> NoTask]
    /\ status = [w \in Workers |-> [status |-> "none"]]

\* No alert manager is constructed in the optimizer's specifications
NoAlertManager ==
    /\ alert_config = None
    /\ alerts = <<>>
    /\ alert_history = <<>>

InitOptimizer ==
    /\ row_counts = EmptyDict
    /\ schema_hashes = EmptyDict
    /\ data_hashes = EmptyDict
    /\ cache = EmptyDict
    /\ cache_order = <<>>
    /\ now = 0
    /\ last = [op |-> "init"]

----------------------------------------------------------------------------
(* The statements of _should_validate and of _update_data_metadata, as a     *)
(* caller w runs them.  Each reads or writes one of the three dictionaries;  *)
(* between two of them the caller waits for Spark (df.count(), str(df.schema)*)
(* and the sampling and collecting of _compute_data_hash), and other callers *)
(* of the same optimizer may run.                                            *)

WKey(w) == Key(task[w].layer, task[w].dataset)
WCacheKey(w) == CacheKey(task[w].layer, task[w].dataset, task[w].suite)

\* _should_validate, lines 238-261: the enabled test, df.count() and the row-count
\* check, which reads self.row_counts
DecideRowCount(w) ==
    /\ pc[w] = "decide"
    /\ LET sv == config.selective_validation
           validate == \/ ~sv.enabled
                       \/ row_count_forces_validation(sv, row_counts, WKey(w),
                                                      task[w].fp.rows)
       IN  pc' = [pc EXCEPT ![w] = IF validate THEN "decided" ELSE "decide_sh"]
    /\ UNCHANGED <<config, alertVars, storeVars, cacheVars, now, last, task, status>>

\* _should_validate, lines 264-272: the schema check, which reads self.schema_hashes
DecideSchemaHash(w) ==
    /\ pc[w] = "decide_sh"
    /\ LET validate == schema_change_forces_validation(
                           config.selective_validation, schema_hashes, WKey(w),
                           task[w].fp.schema_hash)
       IN  pc' = [pc EXCEPT ![w] = IF validate THEN "decided" ELSE "decide_dh"]
    /\ UNCHANGED <<config, alertVars, storeVars, cacheVars, now, last, task, status>>

\* _should_validate, lines 275-290: the data-hash check, which reads
\* self.data_hashes, and the return for data found unchanged
DecideDataHash(w) ==
    /\ pc[w] = "decide_dh"
    /\ LET sv == config.selective_validation
           validate == \/ data_change_forces_validation(sv, data_hashes, WKey(w),
                                                        task[w].fp.data_hash)
                       \/ unchanged_data_validates(sv)
       IN  task' = [task EXCEPT ![w].skipped = ~validate]
    /\ pc' = [pc EXCEPT ![w] = "decided"]
    /\ UNCHANGED <<config, alertVars, storeVars, cacheVars, now, last, status>>

\* _update_data_metadata, line 304: self.row_counts[key] = df.count()
UpdateRowCount(w) ==
    /\ pc[w] = "update_rc"
    /\ row_counts' = update_row_count(row_counts, WKey(w), task[w].fp.rows)
    /\ task' = [task EXCEPT ![w].wrote = TRUE]
    /\ pc' = [pc EXCEPT ![w] = "update_sh"]
    /\ UNCHANGED <<config, alertVars, schema_hashes, data_hashes, cacheVars, now, last, status>>

\* _update_data_metadata, line 307: self.schema_hashes[key] = self._compute_schema_hash(df)
UpdateSchemaHash(w) ==
    /\ pc[w] = "update_sh"
    /\ schema_hashes' = update_schema_hash(schema_hashes, WKey(w), task[w].fp.schema_hash)
    /\ pc' = [pc EXCEPT ![w] = "update_dh"]
    /\ UNCHANGED <<config, alertVars, row_counts, data_hashes, cacheVars, now, last, task, status>>

\* _update_data_metadata, line 310: self.data_hashes[key] = self._compute_data_hash(df)
UpdateDataHash(w) ==
    /\ pc[w] = "update_dh"
    /\ data_hashes' = update_data_hash(data_hashes, WKey(w), task[w].fp.data_hash)
    /\ pc' = [pc EXCEPT ![w] = "updated"]
    /\ UNCHANGED <<config, alertVars, row_counts, schema_hashes, cacheVars, now, last, task, status>>

----------------------------------------------------------------------------
(* SpecDetect: one caller calls _should_validate and _update_data_metadata   *)
(* on one optimizer, for one dataset, under every selective_validation       *)
(* configuration.  A call runs statement by statement; with one caller no    *)
(* other call falls between its statements.                                  *)

DetectDatasets == {"orders"}

\* The one caller of the sequential specifications
Caller == "w1"

InitDetect ==
    /\ config \in {[selective_validation |-> sv, caching |-> DefaultCaching] :
                      sv \in SelectiveConfigs}
    /\ InitOptimizer
    /\ InitWorkers
    /\ NoAlertManager

\* The fingerprints the fingerprint computer may return for a DataFrame
Fingerprints ==
    {fp \in [rows : {df.rows : df \in DataFrames},
             schema_hash : UNION {compute_schema_hash_outcomes(df) : df \in DataFrames},
             data_hash : UNION {compute_data_hash_outcomes(df) : df \in DataFrames}] :
        \E df \in DataFrames :
            /\ fp.rows = df.rows
            /\ fp.schema_hash \in compute_schema_hash_outcomes(df)
            /\ fp.data_hash \in compute_data_hash_outcomes(df)}

\* The caller enters optimizer._should_validate(df, layer, dataset), fp being what
\* df.count(), _compute_schema_hash(df) and _compute_data_hash(df) return for df
CallShouldValidate(w, layer, dataset, fp) ==
    /\ pc[w] = "idle"
    /\ pc' = [pc EXCEPT ![w] = "decide"]
    /\ task' = [task EXCEPT ![w] =
                   [NoTask EXCEPT !.layer = layer, !.dataset = dataset, !.fp = fp]]
    /\ last' = [op |-> "call"]
    /\ UNCHANGED <<config, alertVars, storeVars, cacheVars, now, status>>

\* df.count() raises at line 242: the call raises, having read no dictionary
ShouldValidateRaises(w) ==
    /\ pc[w] = "decide"
    /\ config.selective_validation.enabled
    /\ pc' = [pc EXCEPT ![w] = "idle"]
    /\ last' = [op |-> "raised", args |-> <<task[w].layer, task[w].dataset>>,
                key |-> WKey(w)]
    /\ task' = [task EXCEPT ![w] = NoTask]
    /\ UNCHANGED <<config, alertVars, storeVars, cacheVars, now, status>>

\* _should_validate returns to the caller: True to validate, False to skip
ReturnShouldValidate(w) ==
    /\ pc[w] = "decided"
    /\ pc' = [pc EXCEPT ![w] = "idle"]
    /\ last' = [op |-> "should_validate", args |-> <<task[w].layer, task[w].dataset>>,
                key |-> WKey(w),
                rows |-> task[w].fp.rows, schema_hash |-> task[w].fp.schema_hash,
                data_hash |-> task[w].fp.data_hash,
                ret |-> ~task[w].skipped]
    /\ task' = [task EXCEPT ![w] = NoTask]
    /\ UNCHANGED <<config, alertVars, storeVars, cacheVars, now, status>>

\* The caller enters optimizer._update_data_metadata(df, layer, dataset), fp as above
CallUpdateDataMetadata(w, layer, dataset, fp) ==
    /\ pc[w] = "idle"
    /\ pc' = [pc EXCEPT ![w] = "update_rc"]
    /\ task' = [task EXCEPT ![w] =
                   [NoTask EXCEPT !.layer = layer, !.dataset = dataset, !.fp = fp]]
    /\ last' = [op |-> "call"]
    /\ UNCHANGED <<config, alertVars, storeVars, cacheVars, now, status>>

\* df.count() raises at line 304: the call raises, having written no dictionary
UpdateDataMetadataRaises(w) ==
    /\ pc[w] = "update_rc"
    /\ pc' = [pc EXCEPT ![w] = "idle"]
    /\ last' = [op |-> "raised", args |-> <<task[w].layer, task[w].dataset>>,
                key |-> WKey(w)]
    /\ task' = [task EXCEPT ![w] = NoTask]
    /\ UNCHANGED <<config, alertVars, storeVars, cacheVars, now, status>>

\* _update_data_metadata returns to the caller
ReturnUpdateDataMetadata(w) ==
    /\ pc[w] = "updated"
    /\ pc' = [pc EXCEPT ![w] = "idle"]
    /\ last' = [op |-> "update", args |-> <<task[w].layer, task[w].dataset>>,
                key |-> WKey(w)]
    /\ task' = [task EXCEPT ![w] = NoTask]
    /\ UNCHANGED <<config, alertVars, storeVars, cacheVars, now, status>>

\* The statements of the two methods and their returns, run by the one caller
DetectSteps ==
    \/ DecideRowCount(Caller)
    \/ DecideSchemaHash(Caller)
    \/ DecideDataHash(Caller)
    \/ ShouldValidateRaises(Caller)
    \/ ReturnShouldValidate(Caller)
    \/ UpdateRowCount(Caller)
    \/ UpdateSchemaHash(Caller)
    \/ UpdateDataHash(Caller)
    \/ UpdateDataMetadataRaises(Caller)
    \/ ReturnUpdateDataMetadata(Caller)

NextDetect ==
    \/ \E layer \in Layers, dataset \in DetectDatasets, fp \in Fingerprints :
          \/ CallShouldValidate(Caller, layer, dataset, fp)
          \/ CallUpdateDataMetadata(Caller, layer, dataset, fp)
    \/ DetectSteps

SpecDetect == InitDetect /\ [][NextDetect]_vars

----------------------------------------------------------------------------
(* SpecCache: _get_cached_result and _cache_validation_result called one     *)
(* after the other on one optimizer while the clock advances                 *)

InitCache ==
    /\ config \in {[selective_validation |-> DefaultSelective, caching |-> c] :
                      c \in CachingConfigs}
    /\ InitOptimizer
    /\ InitWorkers
    /\ NoAlertManager

\* optimizer._get_cached_result(layer, dataset, expectation_suite_name)
GetCachedResult(layer, dataset, suite) ==
    LET key == CacheKey(layer, dataset, suite)
        r == get_cached_result(config.caching, cache, now, key)
    IN  /\ cache' = r.cache
        /\ cache_order' = SelectSeq(cache_order, LAMBDA k : k \in DOMAIN r.cache)
        /\ last' = [op |-> "get", args |-> <<layer, dataset, suite>>, key |-> key,
                    ret |-> r.result]
        /\ UNCHANGED <<config, alertVars, storeVars, now, workerVars>>

\* optimizer._cache_validation_result(layer, dataset, expectation_suite_name, result)
CacheValidationResult(layer, dataset, suite, result) ==
    LET key == CacheKey(layer, dataset, suite)
        r == cache_put(config.caching, cache, cache_order, now, key, result)
    IN  /\ IF caching_allowed(config.caching)
              THEN cache' = r.cache /\ cache_order' = r.order
              ELSE UNCHANGED cacheVars
        /\ last' = [op |-> "put", args |-> <<layer, dataset, suite>>, key |-> key,
                    result |-> result,
                    evicted |-> IF caching_allowed(config.caching)
                                   THEN (DOMAIN cache) \ (DOMAIN r.cache) ELSE {}]
        /\ UNCHANGED <<config, alertVars, storeVars, now, workerVars>>

\* A second passes
Tick ==
    /\ now < MaxTime
    /\ now' = now + 1
    /\ last' = [op |-> "tick"]
    /\ UNCHANGED <<config, alertVars, storeVars, cacheVars, workerVars>>

NextCache ==
    \/ \E layer \in Layers, dataset \in Datasets, suite \in Suites :
          \/ GetCachedResult(layer, dataset, suite)
          \/ \E result \in Outcomes : CacheValidationResult(layer, dataset, suite, result)
    \/ Tick

SpecCache == InitCache /\ [][NextCache]_vars

----------------------------------------------------------------------------
(* The change detector's claims, under SpecDetect *)

\* The last call was _should_validate, with selective validation enabled
Decided == last.op = "should_validate" /\ config.selective_validation.enabled

\* A previous fingerprint (row count, schema hash, data hash) is recorded for the key
HasPrevious(key) ==
    /\ key \in DOMAIN row_counts
    /\ key \in DOMAIN schema_hashes
    /\ key \in DOMAIN data_hashes

NoPrevious(key) ==
    /\ key \notin DOMAIN row_counts
    /\ key \notin DOMAIN schema_hashes
    /\ key \notin DOMAIN data_hashes

AllChecksAndSkip ==
    /\ config.selective_validation.check_row_count_changes
    /\ config.selective_validation.check_schema_changes
    /\ config.selective_validation.check_data_hash
    /\ config.selective_validation.skip_unchanged_data

\* C1: with no previous fingerprint recorded for the key, _should_validate returns
\* validate, under every configuration with selective validation enabled.
C1_ColdStartValidates ==
    (Decided /\ NoPrevious(last.key)) => last.ret = TRUE

\* The row count moved by at most the threshold, relative to the previous count;
\* an empty dataset that stays empty has not moved
WithinThreshold(current, previous) ==
    Abs(current - previous) * RowCountThresholdDen <= RowCountThresholdNum * previous

\* C2 as stated: with all three checks and skip_unchanged_data on and a previous
\* fingerprint recorded, _should_validate returns skip exactly when the row count
\* is within the threshold and both signatures equal the stored ones.
C2_SkipIffUnchanged_AsStated ==
    (Decided /\ AllChecksAndSkip /\ HasPrevious(last.key)) =>
        (last.ret = FALSE <=>
            /\ WithinThreshold(last.rows, row_counts[last.key])
            /\ last.schema_hash = schema_hashes[last.key]
            /\ last.data_hash = data_hashes[last.key])

\* C2, amended: the same, for a previous row count above 0; when the previous row
\* count is 0 the detector returns validate whatever the current fingerprint is.
C2_SkipIffUnchanged ==
    (Decided /\ AllChecksAndSkip /\ HasPrevious(last.key)) =>
        (last.ret = FALSE <=>
            /\ row_counts[last.key] > 0
            /\ WithinThreshold(last.rows, row_counts[last.key])
            /\ last.schema_hash = schema_hashes[last.key]
            /\ last.data_hash = data_hashes[last.key])

\* A skip of a dataset whose row count, schema hash and data hash are the ones
\* recorded, both hashes having been computed
C2_Witness ==
    /\ Decided /\ AllChecksAndSkip /\ HasPrevious(last.key)
    /\ last.ret = FALSE
    /\ row_counts[last.key] = 100 /\ last.rows = 100
    /\ last.schema_hash # None /\ last.schema_hash = schema_hashes[last.key]
    /\ last.data_hash # None /\ last.data_hash = data_hashes[last.key]

\* C10: with the checks on and a previous fingerprint recorded, a run whose schema
\* hash or data hash could not be computed is never skipped.
C10_FailedHashValidates ==
    (/\ Decided /\ AllChecksAndSkip /\ HasPrevious(last.key)
     /\ (last.schema_hash = None \/ last.data_hash = None))
        => last.ret = TRUE

----------------------------------------------------------------------------
(* The result cache's claims, under SpecCache *)

\* The last call was a lookup that found an entry for its key
FoundEntry ==
    last.op = "get" /\ config.caching.enabled /\ last.key \in DOMAIN cache

\* C4 as stated: a lookup at time t of an entry put at t0 returns the entry's
\* outcome if t < t0 + ttl_seconds and is a miss from t = t0 + ttl_seconds on.
C4_HitIffBeforeExpiry_AsStated ==
    FoundEntry =>
        IF now < cache[last.key].timestamp + config.caching.ttl_seconds
            THEN last.ret = cache[last.key].result
            ELSE last.ret = None

\* C4, amended: the lookup returns the entry's outcome if t <= t0 + ttl_seconds
\* (at t = t0 + ttl_seconds it is still a hit) and is a miss at every later time.
C4_HitIffNotPastExpiry ==
    FoundEntry =>
        IF now <= cache[last.key].timestamp + config.caching.ttl_seconds
            THEN last.ret = cache[last.key].result
            ELSE last.ret = None

\* A hit at the very instant the ttl has elapsed
C4_Witness ==
    /\ FoundEntry
    /\ now = cache[last.key].timestamp + config.caching.ttl_seconds
    /\ last.ret = cache[last.key].result

\* A step that is a lookup of key k finding an entry past its ttl
ExpiredLookup(k) ==
    /\ last'.op = "get" /\ last'.key = k
    /\ config.caching.enabled
    /\ k \in DOMAIN cache
    /\ now - cache[k].timestamp > config.caching.ttl_seconds

CacheKeys == {CacheKey(l, d, s) : l \in Layers, d \in Datasets, s \in Suites}

\* C5 as stated: a lookup that finds an expired entry returns a miss and removes
\* the entry, so that the key is absent from the cache after it.
C5_ExpiredEntryRemoved_AsStated ==
    [][\A k \in CacheKeys :
          ExpiredLookup(k) => (last'.ret = None /\ k \notin DOMAIN cache')]_vars

\* C5, amended: a lookup that finds an expired entry returns a miss and leaves the
\* cache as it was: the entry stays in the store and still counts toward
\* max_cache_entries.
C5_ExpiredEntryKept ==
    [][\A k \in CacheKeys :
          ExpiredLookup(k) => (last'.ret = None /\ UNCHANGED cacheVars)]_vars

\* A miss on an entry that is past its ttl and still in the store
C5_Witness ==
    /\ FoundEntry
    /\ now - cache[last.key].timestamp > config.caching.ttl_seconds
    /\ last.ret = None

\* cache_order lists the keys of the cache once each, by insertion time
OrderedByInsertion ==
    /\ {cache_order[i] : i \in 1 .. Len(cache_order)} = DOMAIN cache
    /\ Len(cache_order) = Cardinality(DOMAIN cache)
    /\ \A i, j \in 1 .. Len(cache_order) :
          i <= j => cache[cache_order[i]].timestamp <= cache[cache_order[j]].timestamp

\* A step that stores an entry for key k
PutStep(k) ==
    last'.op = "put" /\ last'.key = k /\ caching_allowed(config.caching)

\* What a put of key k does to the store
PutEffect(k) ==
    IF k \notin DOMAIN cache
       /\ Cardinality(DOMAIN cache) + 1 > config.caching.max_cache_entries
    THEN \E victim \in DOMAIN cache :
            /\ victim = Head(cache_order)
            /\ \A o \in DOMAIN cache : cache[victim].timestamp <= cache[o].timestamp
            /\ DOMAIN cache' = ((DOMAIN cache) \ {victim}) \cup {k}
            /\ \A o \in (DOMAIN cache) \ {victim} : cache'[o] = cache[o]
    ELSE /\ DOMAIN cache' = (DOMAIN cache) \cup {k}
         /\ \A o \in (DOMAIN cache) \ {k} : cache'[o] = cache[o]

\* C6: a put of a new key that would take the store past max_cache_entries evicts
\* exactly one entry, the one inserted earliest, and keeps every other entry; any
\* other put evicts nothing.
C6_EvictsOldestOnly ==
    /\ []OrderedByInsertion
    /\ [][\A k \in CacheKeys : PutStep(k) => PutEffect(k)]_vars

\* A put has just evicted an entry from a full store
C6_Witness ==
    /\ last.op = "put"
    /\ last.evicted # {}
    /\ Cardinality(DOMAIN cache) = config.caching.max_cache_entries

\* C30: after any sequence of puts and lookups, at any times, the cache holds at
\* most max_cache_entries entries.
C30_CacheCapacity ==
    Cardinality(DOMAIN cache) <= config.caching.max_cache_entries

\* A put of a new key into a store that was full, one of whose entries is past
\* its ttl and still held; the store is full after it
C30_Witness ==
    /\ last.op = "put"
    /\ last.evicted # {}
    /\ cache[last.key].timestamp = now
    /\ \E k \in DOMAIN cache : now - cache[k].timestamp > config.caching.ttl_seconds
    /\ Cardinality(DOMAIN cache) = config.caching.max_cache_entries

----------------------------------------------------------------------------
(* SpecKeys: the fingerprint store and the result cache of one optimizer,    *)
(* called with dataset and suite names that hold the separator "_"           *)

KeyLayers == {"bronze"}
KeyDatasets == {"user", "user_activity"}
KeySuites == {"bronze_suite", "activity_bronze_suite"}

\* The fingerprints of frames of 100 rows and one schema that differ in content,
\* their hashes computed without failure
KeyFingerprints ==
    {fp \in Fingerprints :
        /\ fp.rows = 100
        /\ fp.schema_hash = MD5(<<"schema", 1>>)
        /\ \E content \in 1 .. NumContents :
              fp.data_hash = MD5(csv_text([rows |-> 100, schema |-> 1,
                                           content |-> content], 0))}

InitKeys ==
    /\ config = [selective_validation |-> DefaultSelective, caching |-> DefaultCaching]
    /\ InitOptimizer
    /\ InitWorkers
    /\ NoAlertManager

\* The one caller makes a call when it is in no other
NextKeys ==
    \/ /\ pc[Caller] = "idle"
       /\ \E layer \in KeyLayers, dataset \in KeyDatasets, suite \in KeySuites :
             \/ GetCachedResult(layer, dataset, suite)
             \/ \E result \in Outcomes :
                   CacheValidationResult(layer, dataset, suite, result)
    \/ \E layer \in KeyLayers, dataset \in KeyDatasets, fp \in KeyFingerprints :
          \/ CallShouldValidate(Caller, layer, dataset, fp)
          \/ CallUpdateDataMetadata(Caller, layer, dataset, fp)
    \/ DetectSteps

SpecKeys == InitKeys /\ [][NextKeys]_vars

----------------------------------------------------------------------------
(* The keys' claim, under SpecKeys *)

CacheOps == {"get", "put"}
StoreOps == {"should_validate", "update"}

\* C27: two calls on the cache with different (layer, dataset, suite) triples
\* never read or write the same cache entry, and two calls on the fingerprint
\* store with different (layer, dataset) pairs never read or write the same
\* fingerprint, whatever the names are.
C27_KeyInjectivity ==
    [][/\ (last.op \in CacheOps /\ last'.op \in CacheOps /\ last.args # last'.args)
             => last.key # last'.key
       /\ (/\ last.op \in StoreOps
           /\ pc[Caller] = "idle" /\ pc'[Caller] \in {"decide", "update_rc"}
           /\ last.args # <<task'[Caller].layer, task'[Caller].dataset>>)
             => last.key # Key(task'[Caller].layer, task'[Caller].dataset)]_vars

----------------------------------------------------------------------------
(* Spec: the workers of the pool run the pipeline concurrently on one shared   *)
(* optimizer, under the default configuration.  The frames are small and their *)
(* counts and hashes are computed without failure, so that a frame has one     *)
(* fingerprint.  A worker reports its run as run_optimized_validation does.    *)

\* The frames the workers validate: a base frame, a frame that differs from it in
\* row count, schema and content, and that frame with a row count within the threshold
WorkerFrames ==
    {[rows |-> 100, schema |-> 1, content |-> 1],
     [rows |-> 105, schema |-> 2, content |-> 2],
     [rows |-> 106, schema |-> 2, content |-> 2]}

\* The frames a dataset is seen with: orders changes between runs, inventory does not
FramesOf(dataset) ==
    IF dataset = "orders" THEN WorkerFrames
    ELSE {[rows |-> 100, schema |-> 1, content |-> 1]}

\* The fingerprint of a frame of at most sample_size rows whose hashes are
\* computed without failure
fingerprint(df) ==
    [rows |-> df.rows, schema_hash |-> MD5(<<"schema", df.schema>>),
     data_hash |-> MD5(csv_text(df, 0))]

\* The executor's outcome for a frame: the rules of the suite hold of content 1 only
execute(df) == <<"result", df.content = 1>>

\* run_optimized_validation, lines 201-235: what it returns when
\* optimize_validation raised, or returned `result` and neither the report nor
\* the alerts raised after it (run_validation, lines 104-156, returns the same)
run_status(raised, result) ==
    IF raised \/ result = None
        THEN [status |-> "error"]
        ELSE [status |-> "success", success |-> result[2]]

Init ==
    /\ config = [selective_validation |-> DefaultSelective, caching |-> DefaultCaching]
    /\ InitOptimizer
    /\ InitWorkers
    /\ NoAlertManager

\* The pool hands a dataset and its frame to a worker, which starts the pipeline
\* on the shared optimizer
Submit(w, layer, dataset, df) ==
    /\ pc[w] \in {"idle", "done"}
    /\ pc' = [pc EXCEPT ![w] = "decide"]
    /\ task' = [task EXCEPT ![w] =
                   [NoTask EXCEPT !.layer = layer, !.dataset = dataset,
                                  !.suite = suite_name(layer, dataset),
                                  !.df = df, !.fp = fingerprint(df)]]
    /\ status' = [status EXCEPT ![w] = [status |-> "running"]]
    /\ UNCHANGED <<config, alertVars, storeVars, cacheVars, now, last>>

\* The pipeline takes the change detector's answer: skip goes on to record the
\* fingerprint, validate to the cache
AfterDecision(w) ==
    /\ pc[w] = "decided"
    /\ pc' = [pc EXCEPT ![w] = IF task[w].skipped THEN "update_rc" ELSE "lookup"]
    /\ UNCHANGED <<config, alertVars, storeVars, cacheVars, now, last, task, status>>

\* The cache is read before the executor runs; a skipped run returns what is
\* cached, which is None when nothing is
Lookup(w) ==
    /\ pc[w] = "lookup"
    /\ LET r == get_cached_result(config.caching, cache, now, WCacheKey(w))
           finished == task[w].skipped \/ r.result # None
       IN  /\ cache' = r.cache
           /\ cache_order' = SelectSeq(cache_order, LAMBDA k : k \in DOMAIN r.cache)
           /\ task' = [task EXCEPT ![w].result = IF finished THEN r.result ELSE @]
           /\ pc' = [pc EXCEPT ![w] = IF finished THEN "returned" ELSE "execute"]
    /\ UNCHANGED <<config, alertVars, storeVars, now, last, status>>

\* The executor returns an outcome
ExecuteOk(w) ==
    /\ pc[w] = "execute"
    /\ task' = [task EXCEPT ![w].result = execute(task[w].df)]
    /\ pc' = [pc EXCEPT ![w] = "update_rc"]
    /\ UNCHANGED <<config, alertVars, storeVars, cacheVars, now, last, status>>

\* A pipeline that would record the row count of the frame before it raises
ExecuteFail_recording(w) ==
    /\ pc[w] = "execute"
    /\ row_counts' = update_row_count(row_counts, WKey(w), task[w].fp.rows)
    /\ task' = [task EXCEPT ![w].raised = TRUE]
    /\ pc' = [pc EXCEPT ![w] = "returned"]
    /\ UNCHANGED <<config, alertVars, schema_hashes, data_hashes, cacheVars, now, last, status>>

\* The executor fails or times out: optimize_validation raises
ExecuteFail(w) ==
    /\ pc[w] = "execute"
    /\ task' = [task EXCEPT ![w].raised = TRUE]
    /\ pc' = [pc EXCEPT ![w] = "returned"]
    /\ UNCHANGED <<config, alertVars, storeVars, cacheVars, now, last, status>>

\* The pipeline has recorded the fingerprint: a skipped run then reads the cache,
\* a run that validated stores its outcome
AfterUpdate(w) ==
    /\ pc[w] = "updated"
    /\ pc' = [pc EXCEPT ![w] = IF task[w].skipped THEN "lookup" ELSE "cache"]
    /\ UNCHANGED <<config, alertVars, storeVars, cacheVars, now, last, task, status>>

\* _cache_validation_result with the outcome of the run, which then returns it
CacheOutcome(w) ==
    /\ pc[w] = "cache"
    /\ LET r == cache_put(config.caching, cache, cache_order, now,
                          WCacheKey(w), task[w].result)
       IN  IF caching_allowed(config.caching)
              THEN cache' = r.cache /\ cache_order' = r.order
              ELSE UNCHANGED cacheVars
    /\ pc' = [pc EXCEPT ![w] = "returned"]
    /\ UNCHANGED <<config, alertVars, storeVars, now, last, task, status>>

\* The worker reports the run that optimize_validation has returned from or
\* raised in, as run_optimized_validation reports a run
WorkerReports(w) ==
    /\ pc[w] = "returned"
    /\ pc' = [pc EXCEPT ![w] = "done"]
    /\ status' = [status EXCEPT ![w] = run_status(task[w].raised, task[w].result)]
    /\ task' = [task EXCEPT ![w] = Returned(@)]
    /\ UNCHANGED <<config, alertVars, storeVars, cacheVars, now, last>>

\* A step of the pipeline (optimize_validation) run by w
PipelineStep(w) ==
    \/ DecideRowCount(w)
    \/ DecideSchemaHash(w)
    \/ DecideDataHash(w)
    \/ AfterDecision(w)
    \/ Lookup(w)
    \/ ExecuteOk(w)
    \/ ExecuteFail(w)
    \/ UpdateRowCount(w)
    \/ UpdateSchemaHash(w)
    \/ UpdateDataHash(w)
    \/ AfterUpdate(w)
    \/ CacheOutcome(w)

Next ==
    \E w \in Workers :
        \/ \E layer \in Layers, dataset \in Datasets :
              \E df \in FramesOf(dataset) : Submit(w, layer, dataset, df)
        \/ PipelineStep(w)
        \/ WorkerReports(w)

Spec == Init /\ [][Next]_vars

----------------------------------------------------------------------------
(* The pipeline's claims, under Spec *)

\* The fingerprint recorded for a key
StoredFingerprint(key) ==
    [rows |-> row_counts[key], schema_hash |-> schema_hashes[key],
     data_hash |-> data_hashes[key]]

\* Worker w takes a step of a run that the change detector told to skip
SkipStep(w) ==
    /\ task[w].skipped
    /\ pc[w] \in {"decided", "update_rc", "update_sh", "update_dh", "updated",
                 "lookup", "returned"}
    /\ pc'[w] # pc[w]

\* C3: a run that the change detector told to skip records the current fingerprint
\* (row count, schema hash and data hash) for its key and leaves the cache, and so
\* the cached outcome of the key, as it was.
C3_SkipRecordsFingerprintOnly ==
    [][\A w \in Workers :
          SkipStep(w) =>
                /\ UNCHANGED cacheVars
                /\ pc[w] = "decided" => pc'[w] = "update_rc"
                /\ pc[w] = "update_rc" =>
                      /\ pc'[w] = "update_sh"
                      /\ WKey(w) \in DOMAIN row_counts'
                      /\ row_counts'[WKey(w)] = task[w].fp.rows
                /\ pc[w] = "update_sh" =>
                      /\ pc'[w] = "update_dh"
                      /\ WKey(w) \in DOMAIN schema_hashes'
                      /\ schema_hashes'[WKey(w)] = task[w].fp.schema_hash
                /\ pc[w] = "update_dh" =>
                      /\ pc'[w] = "updated"
                      /\ WKey(w) \in DOMAIN data_hashes'
                      /\ data_hashes'[WKey(w)] = task[w].fp.data_hash
                /\ pc[w] = "updated" => pc'[w] = "lookup"
                /\ pc[w] = "lookup" => pc'[w] = "returned"
                /\ pc[w] = "returned" => pc'[w] = "done"]_vars

\* A skipped run has recorded a fingerprint with a new row count for a key whose
\* outcome is cached
C3_Witness ==
    \E w \in Workers :
        /\ pc[w] = "lookup" /\ task[w].skipped /\ task[w].wrote
        /\ WCacheKey(w) \in DOMAIN cache
        /\ HasPrevious(WKey(w))
        /\ StoredFingerprint(WKey(w)) = task[w].fp
        /\ task[w].fp.rows = 106

\* C7: an outcome is written to the cache only if the fingerprint its validation
\* ran against is the one recorded for the key at the time of the write.
C7_NoStaleCacheWrite ==
    [][\A w \in Workers :
          (pc[w] = "cache" /\ pc'[w] = "returned" /\ caching_allowed(config.caching))
              => (HasPrevious(WKey(w)) /\ StoredFingerprint(WKey(w)) = task[w].fp)]_vars

\* A worker is between the first and the last write of _update_data_metadata for the key
MidUpdate(key) ==
    \E w \in Workers : pc[w] \in {"update_sh", "update_dh"} /\ WKey(w) = key

\* C8: whenever no update of a key is in progress, the row count, schema hash and
\* data hash recorded for it are those of one frame: they come from a single update.
C8_FingerprintFromOneUpdate ==
    \A layer \in Layers, dataset \in Datasets :
        LET key == Key(layer, dataset)
        IN  ~MidUpdate(key) =>
                \/ NoPrevious(key)
                \/ /\ HasPrevious(key)
                   /\ \E df \in FramesOf(dataset) :
                         StoredFingerprint(key) = fingerprint(df)

\* Worker w takes the step in which the executor fails, or reports the failed run
FailedRunStep(w) == pc'[w] # pc[w] /\ task'[w].raised

\* Worker w takes a step that a run takes before its executor has returned: it
\* is handed the dataset, reads the stored fingerprint, reads the cache or
\* calls the executor
BeforeExecutorStep(w) ==
    /\ pc'[w] # pc[w]
    /\ pc[w] \in {"idle", "done", "decide", "decide_sh", "decide_dh", "decided",
                 "lookup", "execute"}

\* C9: a run whose executor failed or timed out is reported with status "error",
\* and a validation outcome, of success true or false, is reported only of a run
\* whose executor did not fail; the failed run has made no write to the
\* fingerprint store or the cache: no step it took before the executor, not the
\* failing step and not the report of the failure changes the row counts, the
\* schema hashes, the data hashes or the cache, whatever they held before the run.
C9_ExecutionErrorLeavesStores ==
    /\ [](\A w \in Workers :
             /\ task[w].raised => (pc[w] \in {"returned", "done"} /\ ~task[w].wrote)
             /\ (pc[w] = "done" /\ task[w].raised) => status[w] = [status |-> "error"]
             /\ (pc[w] = "done" /\ status[w].status = "success") => ~task[w].raised)
    /\ [][\A w \in Workers :
             (FailedRunStep(w) \/ BeforeExecutorStep(w))
                 => UNCHANGED <<storeVars, cacheVars>>]_vars

\* A run has failed in the executor and is reported, while the optimizer holds the
\* fingerprint recorded for orders by an earlier run and the outcome another
\* worker cached for it (of the datasets only orders changes between runs, so
\* the failed run is one of orders)
C9_Witness ==
    \E w \in Workers :
        /\ pc[w] = "done" /\ task[w].raised
        /\ status[w] = [status |-> "error"]
        /\ HasPrevious(Key("bronze", "orders"))
        /\ CacheKey("bronze", "orders", suite_name("bronze", "orders")) \in DOMAIN cache

----------------------------------------------------------------------------
(* The alert manager (src/monitoring_alerts.py, class AlertManager):         *)
(* threshold rules, validation summaries and breaches                        *)

\* One entry of alert_thresholds: success_rate is the minimum success rate in
\* per cent, the other two are the maximum counts allowed
Rule(success_rate, failed_validations, failed_expectations) ==
    [success_rate |-> success_rate, failed_validations |-> failed_validations,
     failed_expectations |-> failed_expectations]

\* DEFAULT_CONFIG["alert_thresholds"]["datasets"]: the rules of the seven datasets
DefaultDatasetRules ==
    [d \in {"user_activity", "orders", "inventory", "dim_customer", "dim_product",
            "fact_sales", "kpi_revenue"} |->
        CASE d = "user_activity" -> Rule(90, 2, 5)
          [] d \in {"orders", "inventory"} -> Rule(95, 1, 3)
          [] d \in {"dim_customer", "dim_product", "fact_sales"} -> Rule(98, 0, 1)
          [] d = "kpi_revenue" -> Rule(100, 0, 0)]

\* DEFAULT_CONFIG["alert_thresholds"]
DefaultAlertThresholds ==
    [k \in {"global", "bronze", "silver", "gold", "datasets"} |->
        CASE k = "global" -> Rule(90, 3, 5)
          [] k = "bronze" -> Rule(85, 5, 10)
          [] k = "silver" -> Rule(90, 3, 7)
          [] k = "gold" -> Rule(95, 1, 3)
          [] k = "datasets" -> DefaultDatasetRules]

\* The alert_thresholds of a configuration file that keeps the rules of the given
\* layers and datasets only
AlertThresholdsWith(layers, datasets) ==
    [k \in {"global", "datasets"} \cup layers |->
        IF k = "datasets"
            THEN [d \in datasets |-> DefaultAlertThresholds["datasets"][d]]
            ELSE DefaultAlertThresholds[k]]

AlertThresholdConfigs ==
    {AlertThresholdsWith(ls, ds) :
        ls \in {{"bronze", "silver", "gold"}, {"bronze", "gold"}},
        ds \in {{"orders", "dim_customer"}, {"dim_customer"}}}

\* validation_summary["layers"]: one entry per layer, in the order the reporter's
\* summary lists them (bronze, silver, gold).  A layer in which nothing was
\* validated keeps its initial entry, rate 0.0 and failure 0.
IdleLayer(name) == [name |-> name, rate |-> 0, failure |-> 0]
PassingLayer(name) == [name |-> name, rate |-> 100, failure |-> 0]

SummaryLayers ==
    {<<bronze, silver, PassingLayer("gold")>> :
        bronze \in [name : {"bronze"}, rate : {0, 85, 100}, failure : {5, 6}],
        silver \in {IdleLayer("silver"), PassingLayer("silver")}}

\* validation_summary["datasets"]: one entry per validated dataset, in insertion
\* order.  A validation succeeds exactly when no expectation failed.
DatasetEntry(name, layer, success_rate, failed_expectations) ==
    [name |-> name, layer |-> layer, success |-> (failed_expectations = 0),
     success_rate |-> success_rate, failed_expectations |-> failed_expectations]

OrdersEntries ==
    {DatasetEntry("orders", "bronze", 100, 0)}
    \cup {DatasetEntry("orders", "bronze", r, n) : r \in {9, 90, 95}, n \in {3, 4}}

DimCustomerEntries ==
    {DatasetEntry("dim_customer", "gold", 100, 0)}
    \cup {DatasetEntry("dim_customer", "gold", r, n) : r \in {50, 98}, n \in {1, 3}}

SummaryDatasets ==
    {<<o>> : o \in OrdersEntries}
    \cup {<<o, d>> : o \in OrdersEntries, d \in DimCustomerEntries}

\* A validation summary, as far as check_thresholds reads it
Summaries ==
    [success_rate : {18, 27, 85, 90, 100}, failed_validations : {3, 4},
     layers : SummaryLayers, datasets : SummaryDatasets]

\* The concatenation of a sequence of sequences
RECURSIVE Concat(_)
Concat(seqs) == IF seqs = <<>> THEN <<>> ELSE Head(seqs) \o Concat(Tail(seqs))

\* A global check that would count a rate equal to the threshold as a breach
global_breaches_inclusive(at, summary) ==
    LET global_thresholds == at["global"]
    IN  (IF summary.success_rate <= global_thresholds.success_rate
            THEN <<[level |-> "global", type |-> "success_rate",
                    threshold |-> global_thresholds.success_rate,
                    actual |-> summary.success_rate]>>
            ELSE <<>>)
        \o
        (IF summary.failed_validations > global_thresholds.failed_validations
            THEN <<[level |-> "global", type |-> "failed_validations",
                    threshold |-> global_thresholds.failed_validations,
                    actual |-> summary.failed_validations]>>
            ELSE <<>>)

\* check_thresholds, lines 305-324: the breaches of the global rule.  The
\* description text of a breach is left out.
global_breaches(at, summary) ==
    LET global_thresholds == at["global"]
    IN  (IF summary.success_rate < global_thresholds.success_rate
            THEN <<[level |-> "global", type |-> "success_rate",
                    threshold |-> global_thresholds.success_rate,
                    actual |-> summary.success_rate]>>
            ELSE <<>>)
        \o
        (IF summary.failed_validations > global_thresholds.failed_validations
            THEN <<[level |-> "global", type |-> "failed_validations",
                    threshold |-> global_thresholds.failed_validations,
                    actual |-> summary.failed_validations]>>
            ELSE <<>>)

\* A layer check that would count a tally equal to the threshold as a breach
layer_rule_breaches_inclusive(layer_thresholds, layer_data) ==
    (IF layer_data.rate < layer_thresholds.success_rate
        THEN <<[level |-> "layer", layer |-> layer_data.name, type |-> "success_rate",
                threshold |-> layer_thresholds.success_rate,
                actual |-> layer_data.rate]>>
        ELSE <<>>)
    \o
    (IF layer_data.failure >= layer_thresholds.failed_validations
        THEN <<[level |-> "layer", layer |-> layer_data.name,
                type |-> "failed_validations",
                threshold |-> layer_thresholds.failed_validations,
                actual |-> layer_data.failure]>>
        ELSE <<>>)

\* check_thresholds, lines 331-349: the breaches of one layer's data against a rule
layer_rule_breaches(layer_thresholds, layer_data) ==
    (IF layer_data.rate < layer_thresholds.success_rate
        THEN <<[level |-> "layer", layer |-> layer_data.name, type |-> "success_rate",
                threshold |-> layer_thresholds.success_rate,
                actual |-> layer_data.rate]>>
        ELSE <<>>)
    \o
    (IF layer_data.failure > layer_thresholds.failed_validations
        THEN <<[level |-> "layer", layer |-> layer_data.name,
                type |-> "failed_validations",
                threshold |-> layer_thresholds.failed_validations,
                actual |-> layer_data.failure]>>
        ELSE <<>>)

\* A layer check that would fall back to the global rule for a layer without one
layer_breaches_global_fallback(at, layer_data) ==
    IF layer_data.name \in DOMAIN at
        THEN layer_rule_breaches(at[layer_data.name], layer_data)
        ELSE layer_rule_breaches(at["global"], layer_data)

\* check_thresholds, lines 327-349: the breaches of one layer of the summary
layer_breaches(at, layer_data) ==
    IF layer_data.name \in DOMAIN at
        THEN layer_rule_breaches(at[layer_data.name], layer_data)
        ELSE <<>>

\* A zero-tolerance check that would fire only when the success rate is low too
zero_tolerance_breach_rate_gated(dataset_thresholds, dataset_data) ==
    IF /\ ~dataset_data.success
       /\ dataset_thresholds.failed_validations = 0
       /\ dataset_data.success_rate < dataset_thresholds.success_rate
        THEN <<[level |-> "dataset", dataset |-> dataset_data.name,
                layer |-> dataset_data.layer, type |-> "failed_validation",
                threshold |-> dataset_thresholds.failed_validations, actual |-> 1]>>
        ELSE <<>>

\* check_thresholds, lines 367-376: the zero-tolerance breach of a dataset, whose
\* type is spelled "failed_validation"
zero_tolerance_breach(dataset_thresholds, dataset_data) ==
    IF ~dataset_data.success /\ dataset_thresholds.failed_validations = 0
        THEN <<[level |-> "dataset", dataset |-> dataset_data.name,
                layer |-> dataset_data.layer, type |-> "failed_validation",
                threshold |-> dataset_thresholds.failed_validations, actual |-> 1]>>
        ELSE <<>>

\* check_thresholds, lines 352-387: the breaches of one dataset of the summary
dataset_breaches(at, dataset_data) ==
    IF dataset_data.name \in DOMAIN at["datasets"]
        THEN LET dataset_thresholds == at["datasets"][dataset_data.name]
             IN  (IF dataset_data.success_rate < dataset_thresholds.success_rate
                     THEN <<[level |-> "dataset", dataset |-> dataset_data.name,
                             layer |-> dataset_data.layer, type |-> "success_rate",
                             threshold |-> dataset_thresholds.success_rate,
                             actual |-> dataset_data.success_rate]>>
                     ELSE <<>>)
                 \o zero_tolerance_breach(dataset_thresholds, dataset_data)
                 \o
                 (IF dataset_data.failed_expectations
                        > dataset_thresholds.failed_expectations
                     THEN <<[level |-> "dataset", dataset |-> dataset_data.name,
                             layer |-> dataset_data.layer,
                             type |-> "failed_expectations",
                             threshold |-> dataset_thresholds.failed_expectations,
                             actual |-> dataset_data.failed_expectations]>>
                     ELSE <<>>)
        ELSE <<>>

\* check_thresholds(validation_summary): the list of breaches, global first, then
\* layer by layer, then dataset by dataset
check_thresholds(at, summary) ==
    global_breaches(at, summary)
    \o Concat([i \in 1 .. Len(summary.layers) |-> layer_breaches(at, summary.layers[i])])
    \o Concat([i \in 1 .. Len(summary.datasets) |->
                  dataset_breaches(at, summary.datasets[i])])

----------------------------------------------------------------------------
(* The severity classifier *)

\* DEFAULT_CONFIG["alert_severity_levels"]: the breach percentage from which each
\* level applies
DefaultSeverityLevels ==
    [l \in {"critical", "high", "medium", "low"} |->
        [threshold |-> CASE l = "critical" -> 95 [] l = "high" -> 90
                         [] l = "medium" -> 80 [] l = "low" -> 70]]

\* A configuration file with lower thresholds
SensitiveSeverityLevels ==
    [l \in {"critical", "high", "medium", "low"} |->
        [threshold |-> CASE l = "critical" -> 50 [] l = "high" -> 25
                         [] l = "medium" -> 10 [] l = "low" -> 5]]

SeverityLevelConfigs == {DefaultSeverityLevels, SensitiveSeverityLevels}

\* The severity levels, lowest first
SeverityOrder == <<"low", "medium", "high", "critical">>

\* The name of a severity level as determine_severity returns it, a str
Severity(name) == <<"str", name>>

\* A breach percentage is kept as the exact fraction 100 * num / den, den > 0
Pct(num, den) == [num |-> num, den |-> den]

PctLess(p, q) == p.num * q.den < q.num * p.den

\* max(breach_percentage, percentage_below): the first argument when they are equal
PctMax(p, q) == IF PctLess(p, q) THEN q ELSE p

\* Is the percentage at least the number of per cent n
PctAtLeast(p, n) == 100 * p.num >= n * p.den

\* A computation that would keep the percentage of the last success-rate breach
RECURSIVE breach_percentage_last(_)
breach_percentage_last(breaches) ==
    IF breaches = <<>> THEN Pct(0, 1)
    ELSE LET breach == breaches[Len(breaches)]
             before == breach_percentage_last(SubSeq(breaches, 1, Len(breaches) - 1))
         IN  IF breach.type = "success_rate"
                 THEN Pct(breach.threshold - breach.actual, breach.threshold)
                 ELSE before

\* A computation that would divide by the actual rate instead of the threshold
RECURSIVE breach_percentage_of_actual(_)
breach_percentage_of_actual(breaches) ==
    IF breaches = <<>> THEN Pct(0, 1)
    ELSE LET breach == breaches[Len(breaches)]
             before == breach_percentage_of_actual(SubSeq(breaches, 1, Len(breaches) - 1))
         IN  IF breach.type = "success_rate" /\ breach.actual > 0
                 THEN PctMax(before, Pct(breach.threshold - breach.actual, breach.actual))
                 ELSE before

\* A computation that would count a failed_expectations breach too, by the
\* percentage by which the count is above its threshold
RECURSIVE breach_percentage_all_kinds(_)
breach_percentage_all_kinds(breaches) ==
    IF breaches = <<>> THEN Pct(0, 1)
    ELSE LET breach == breaches[Len(breaches)]
             before == breach_percentage_all_kinds(SubSeq(breaches, 1, Len(breaches) - 1))
         IN  IF breach.type = "success_rate"
                 THEN PctMax(before, Pct(breach.threshold - breach.actual, breach.threshold))
             ELSE IF breach.type = "failed_expectations"
                 THEN PctMax(before, Pct(breach.actual - breach.threshold, breach.threshold))
             ELSE before

\* determine_severity, lines 409-418: the largest percentage by which a
\* success-rate breach is below its threshold, 0 when there is none
RECURSIVE breach_percentage(_)
breach_percentage(breaches) ==
    IF breaches = <<>> THEN Pct(0, 1)
    ELSE LET breach == breaches[Len(breaches)]
             before == breach_percentage(SubSeq(breaches, 1, Len(breaches) - 1))
         IN  IF breach.type = "success_rate"
                 THEN PctMax(before, Pct(breach.threshold - breach.actual, breach.threshold))
                 ELSE before

\* The rest of determine_severity: the highest level whose threshold is at most
\* the breach percentage, None when the percentage is below every threshold
classify(severity_levels, breach_pct) ==
    LET reached == {i \in 1 .. Len(SeverityOrder) :
                       PctAtLeast(breach_pct, severity_levels[SeverityOrder[i]].threshold)}
    IN  IF reached = {} THEN None
        ELSE Severity(SeverityOrder[CHOOSE i \in reached : \A j \in reached : j <= i])

\* determine_severity(breaches)
determine_severity(severity_levels, breaches) ==
    IF breaches = <<>> THEN None
    ELSE classify(severity_levels, breach_percentage(breaches))

----------------------------------------------------------------------------
(* SpecThreshold: check_thresholds and determine_severity called one after   *)
(* the other on one alert manager, under every configuration explored        *)

\* DEFAULT_CONFIG["escalation_workflow"]["levels"]: the delay of each level
DefaultEscalationLevels ==
    <<[level |-> 1, delay |-> 0], [level |-> 2, delay |-> 30], [level |-> 3, delay |-> 60]>>

\* DEFAULT_CONFIG["alert_history"]
DefaultAlertHistory == [retention_days |-> 90, max_entries |-> 1000]

AlertConfigs ==
    [alert_thresholds : AlertThresholdConfigs,
     alert_severity_levels : SeverityLevelConfigs,
     escalation_workflow : {[levels |-> DefaultEscalationLevels]},
     alert_history : {DefaultAlertHistory}]

\* No optimizer is constructed in the alert manager's specifications
NoOptimizer ==
    /\ config = None
    /\ InitOptimizer
    /\ InitWorkers

optimizerVars == <<config, storeVars, cacheVars, workerVars>>

InitThreshold ==
    /\ NoOptimizer
    /\ alert_config \in AlertConfigs
    /\ alerts = <<>>
    /\ alert_history = <<>>

\* The summaries whose breach lists are classified: the counts at the global and
\* layer thresholds, one dataset
SeveritySummaries ==
    {s \in Summaries :
        /\ s.failed_validations = 3
        /\ s.layers[1].failure = 5
        /\ s.layers[2] = PassingLayer("silver")
        /\ Len(s.datasets) = 1}

\* manager.check_thresholds(validation_summary).  Neither method changes the
\* manager, so one call of check_thresholds and two of determine_severity on a
\* new manager show all that a longer run of calls can.
CheckThresholds(summary) ==
    /\ last.op = "init"
    /\ last' = [op |-> "check_thresholds", summary |-> summary,
                ret |-> check_thresholds(alert_config.alert_thresholds, summary)]
    /\ UNCHANGED <<optimizerVars, now, alertVars>>

\* manager.determine_severity(breaches); prev holds the call before it, when
\* that was a determine_severity too
DetermineSeverity(breaches) ==
    /\ last.op = "init" \/ (last.op = "determine_severity" /\ last.prev = <<>>)
    /\ last' = [op |-> "determine_severity", breaches |-> breaches,
                ret |-> determine_severity(alert_config.alert_severity_levels, breaches),
                prev |-> IF last.op = "determine_severity"
                            THEN <<[breaches |-> last.breaches, ret |-> last.ret]>>
                            ELSE <<>>]
    /\ UNCHANGED <<optimizerVars, now, alertVars>>

NextThreshold ==
    \/ \E summary \in Summaries : CheckThresholds(summary)
    \/ \E summary \in SeveritySummaries :
          DetermineSeverity(check_thresholds(alert_config.alert_thresholds, summary))

SpecThreshold == InitThreshold /\ [][NextThreshold]_vars

----------------------------------------------------------------------------
(* The threshold evaluator's claims, under SpecThreshold *)

Checked == last.op = "check_thresholds"

\* The layers and datasets that have a rule of their own
ConfiguredLayers == (DOMAIN alert_config.alert_thresholds) \ {"global", "datasets"}
ConfiguredDatasets == DOMAIN alert_config.alert_thresholds["datasets"]

\* The positions in a breach list of the breaches of one kind at one scope
BreachesAt(breaches, level, key, type) ==
    {i \in 1 .. Len(breaches) :
        /\ breaches[i].level = level
        /\ breaches[i].type = type
        /\ (level = "layer" => breaches[i].layer = key)
        /\ (level = "dataset" => breaches[i].dataset = key)}

\* C11: check_thresholds evaluates the global rule in every call; every layer
\* breach is of a layer with a configured rule and every dataset breach of a
\* dataset with a configured rule, so that a layer or dataset of the summary
\* without a rule yields no breach; the call returns a list in every case.
C11_ScopeApplicability ==
    Checked =>
        LET global_thresholds == alert_config.alert_thresholds["global"]
            breaches == last.ret
        IN  /\ (last.summary.success_rate < global_thresholds.success_rate)
                  <=> BreachesAt(breaches, "global", "", "success_rate") # {}
            /\ (last.summary.failed_validations > global_thresholds.failed_validations)
                  <=> BreachesAt(breaches, "global", "", "failed_validations") # {}
            /\ \A i \in 1 .. Len(breaches) :
                  /\ breaches[i].level \in {"global", "layer", "dataset"}
                  /\ (breaches[i].level = "layer"
                         => breaches[i].layer \in ConfiguredLayers)
                  /\ (breaches[i].level = "dataset"
                         => breaches[i].dataset \in ConfiguredDatasets)

\* A call with an idle layer and a failing dataset that have no rule, and a
\* global breach
C11_Witness ==
    /\ Checked
    /\ "silver" \notin ConfiguredLayers
    /\ last.summary.layers[2] = IdleLayer("silver")
    /\ "orders" \notin ConfiguredDatasets
    /\ last.summary.datasets[1].success_rate = 9
    /\ BreachesAt(last.ret, "global", "", "success_rate") # {}
    /\ \A i \in 1 .. Len(last.ret) : last.ret[i].level # "dataset"

\* The success-rate breaches of a scope are as C12 says: one that records the
\* threshold and the actual rate when the rate is below the threshold, none otherwise
RateBreachAsRuled(breaches, level, key, rate, threshold) ==
    LET found == BreachesAt(breaches, level, key, "success_rate")
    IN  IF rate < threshold
            THEN /\ found # {}
                 /\ \A i \in found : /\ breaches[i].threshold = threshold
                                      /\ breaches[i].actual = rate
            ELSE found = {}

\* C12: at the global scope, at every layer with a rule and at every dataset
\* with a rule, a success_rate breach is in the list exactly when the scope's
\* rate is strictly below the rule's success_rate, and it records that threshold
\* and that rate.
C12_RateBreachIffBelow ==
    Checked =>
        LET at == alert_config.alert_thresholds
            s == last.summary
        IN  /\ RateBreachAsRuled(last.ret, "global", "", s.success_rate,
                                 at["global"].success_rate)
            /\ \A i \in 1 .. Len(s.layers) :
                  s.layers[i].name \in ConfiguredLayers =>
                      RateBreachAsRuled(last.ret, "layer", s.layers[i].name,
                                        s.layers[i].rate, at[s.layers[i].name].success_rate)
            /\ \A i \in 1 .. Len(s.datasets) :
                  s.datasets[i].name \in ConfiguredDatasets =>
                      RateBreachAsRuled(last.ret, "dataset", s.datasets[i].name,
                                        s.datasets[i].success_rate,
                                        at["datasets"][s.datasets[i].name].success_rate)

\* A call where the global, the bronze and the orders rate each equal their
\* threshold, and no success_rate breach is reported
C12_Witness ==
    /\ Checked
    /\ last.summary.success_rate = alert_config.alert_thresholds["global"].success_rate
    /\ last.summary.layers[1].rate = alert_config.alert_thresholds["bronze"].success_rate
    /\ "orders" \in ConfiguredDatasets
    /\ last.summary.datasets[1].success_rate
           = alert_config.alert_thresholds["datasets"]["orders"].success_rate
    /\ \A i \in 1 .. Len(last.ret) : last.ret[i].type # "success_rate"

\* C13: for a dataset whose rule has failed_validations = 0, a failed
\* validation yields exactly one zero-tolerance breach at dataset scope,
\* whatever the dataset's success rate is.
C13_ZeroTolerance ==
    Checked =>
        \A i \in 1 .. Len(last.summary.datasets) :
            LET d == last.summary.datasets[i]
            IN  (/\ d.name \in ConfiguredDatasets
                 /\ alert_config.alert_thresholds["datasets"][d.name].failed_validations = 0
                 /\ ~d.success)
                    => Cardinality(BreachesAt(last.ret, "dataset", d.name,
                                              "failed_validation")) = 1

\* A failed validation of dim_customer at its minimum success rate, reported
\* as a zero-tolerance breach and not as a success_rate breach
C13_Witness ==
    /\ Checked
    /\ Len(last.summary.datasets) = 2
    /\ ~last.summary.datasets[2].success
    /\ last.summary.datasets[2].success_rate
           = alert_config.alert_thresholds["datasets"]["dim_customer"].success_rate
    /\ Cardinality(BreachesAt(last.ret, "dataset", "dim_customer", "failed_validation")) = 1
    /\ BreachesAt(last.ret, "dataset", "dim_customer", "success_rate") = {}

\* The failed expectations counted over the datasets of a summary that are in
\* the given layers
RECURSIVE FailedExpectationsIn(_, _)
FailedExpectationsIn(datasets, layers) ==
    IF datasets = <<>> THEN 0
    ELSE (IF Head(datasets).layer \in layers THEN Head(datasets).failed_expectations ELSE 0)
         + FailedExpectationsIn(Tail(datasets), layers)

\* C14: at the global scope, at every layer with a rule and at every dataset
\* with a rule, a failed_expectations breach is in the list whenever the count
\* of failed expectations in the scope exceeds the rule's failed_expectations.
C14_FailedExpectationsAtEveryScope ==
    Checked =>
        LET at == alert_config.alert_thresholds
            s == last.summary
        IN  /\ FailedExpectationsIn(s.datasets, {"bronze", "silver", "gold"})
                    > at["global"].failed_expectations
                  => BreachesAt(last.ret, "global", "", "failed_expectations") # {}
            /\ \A i \in 1 .. Len(s.layers) :
                  (/\ s.layers[i].name \in ConfiguredLayers
                   /\ FailedExpectationsIn(s.datasets, {s.layers[i].name})
                          > at[s.layers[i].name].failed_expectations)
                      => BreachesAt(last.ret, "layer", s.layers[i].name,
                                    "failed_expectations") # {}
            /\ \A i \in 1 .. Len(s.datasets) :
                  (/\ s.datasets[i].name \in ConfiguredDatasets
                   /\ s.datasets[i].failed_expectations
                          > at["datasets"][s.datasets[i].name].failed_expectations)
                      => BreachesAt(last.ret, "dataset", s.datasets[i].name,
                                    "failed_expectations") # {}

\* The failed_validations breaches of a scope are as C26 says: exactly one, which
\* records the threshold and the tally, when the tally is above the threshold,
\* none otherwise
TallyBreachAsRuled(breaches, level, key, tally, threshold) ==
    LET found == BreachesAt(breaches, level, key, "failed_validations")
    IN  IF tally > threshold
            THEN /\ Cardinality(found) = 1
                 /\ \A i \in found : /\ breaches[i].threshold = threshold
                                      /\ breaches[i].actual = tally
            ELSE found = {}

\* C26: at the global scope and at every layer with a rule, a failed_validations
\* breach is in the list exactly when the scope's tally of failed validations
\* is strictly above the rule's failed_validations, a tally equal to it being
\* no breach, and the list holds at most one such breach per scope.
C26_FailedValidationTally ==
    Checked =>
        LET at == alert_config.alert_thresholds
            s == last.summary
        IN  /\ TallyBreachAsRuled(last.ret, "global", "", s.failed_validations,
                                  at["global"].failed_validations)
            /\ \A i \in 1 .. Len(s.layers) :
                  s.layers[i].name \in ConfiguredLayers =>
                      TallyBreachAsRuled(last.ret, "layer", s.layers[i].name,
                                         s.layers[i].failure,
                                         at[s.layers[i].name].failed_validations)

\* A call where the bronze tally equals its threshold and is not reported, and
\* the global tally is one above its threshold and is reported once
C26_Witness ==
    /\ Checked
    /\ last.summary.layers[1].failure = alert_config.alert_thresholds["bronze"].failed_validations
    /\ BreachesAt(last.ret, "layer", "bronze", "failed_validations") = {}
    /\ last.summary.failed_validations
           = alert_config.alert_thresholds["global"].failed_validations + 1
    /\ Cardinality(BreachesAt(last.ret, "global", "", "failed_validations")) = 1

----------------------------------------------------------------------------
(* The severity classifier's claims, under SpecThreshold *)

Classified == last.op = "determine_severity"

\* Some success_rate breach of the list is at least n per cent below its threshold
SomeRateBelowBy(breaches, n) ==
    \E i \in 1 .. Len(breaches) :
        /\ breaches[i].type = "success_rate"
        /\ 100 * (breaches[i].threshold - breaches[i].actual) >= n * breaches[i].threshold

\* Where a value returned by determine_severity stands: None below every level
Rank(severity) ==
    IF severity = None THEN 0
    ELSE CHOOSE i \in 1 .. Len(SeverityOrder) : severity = Severity(SeverityOrder[i])

\* C15: for a non-empty breach list determine_severity returns the highest level
\* whose threshold is at most the largest percentage by which a success_rate
\* breach is below its threshold, and None when that percentage is below the
\* threshold of every level.
C15_SeverityOfLargestShortfall ==
    (Classified /\ last.breaches # <<>>) =>
        LET levels == alert_config.alert_severity_levels
            reached == {i \in 1 .. Len(SeverityOrder) :
                           SomeRateBelowBy(last.breaches, levels[SeverityOrder[i]].threshold)}
        IN  /\ Rank(last.ret) \in reached \cup {0}
            /\ \A i \in reached : i <= Rank(last.ret)

\* A list whose success_rate breaches are 70 per cent and more than 90 per cent
\* below their thresholds, classified high under the default levels
C15_Witness ==
    /\ Classified
    /\ alert_config.alert_severity_levels = DefaultSeverityLevels
    /\ \E i, j \in 1 .. Len(last.breaches) :
          /\ last.breaches[i].type = "success_rate"
          /\ last.breaches[i].threshold = 90 /\ last.breaches[i].actual = 27
          /\ last.breaches[j].type = "success_rate"
          /\ last.breaches[j].threshold = 95 /\ last.breaches[j].actual = 9
    /\ last.ret = Severity("high")

\* The largest shortfall of the first list is below the largest of the second,
\* a list without success_rate breaches having the percentage 0
LargestShortfallLess(first, second) ==
    \E j \in 1 .. Len(second) :
        /\ second[j].type = "success_rate"
        /\ second[j].actual < second[j].threshold
        /\ \A i \in 1 .. Len(first) :
              first[i].type = "success_rate" =>
                  (first[i].threshold - first[i].actual) * second[j].threshold
                      < (second[j].threshold - second[j].actual) * first[i].threshold

StrictlyDecreasing(levels) ==
    \A i \in 1 .. Len(SeverityOrder) - 1 :
        levels[SeverityOrder[i]].threshold < levels[SeverityOrder[i + 1]].threshold

\* C16: under levels whose thresholds strictly decrease from critical to low,
\* of two non-empty breach lists the one with the larger breach percentage is
\* never given a lower severity than the other, None counting below low.
C16_SeverityMonotone ==
    (/\ Classified /\ last.prev # <<>>
     /\ StrictlyDecreasing(alert_config.alert_severity_levels)
     /\ last.prev[1].breaches # <<>> /\ last.breaches # <<>>
     /\ LargestShortfallLess(last.prev[1].breaches, last.breaches))
        => Rank(last.prev[1].ret) <= Rank(last.ret)

\* Two calls in a row, the first classified low and the second, of a larger
\* breach percentage, medium
C16_Witness ==
    /\ Classified /\ last.prev # <<>>
    /\ LargestShortfallLess(last.prev[1].breaches, last.breaches)
    /\ last.prev[1].ret = Severity("low")
    /\ last.ret = Severity("medium")

\* The success_rate breaches of a list, in their order
RateBreaches(breaches) == SelectSeq(breaches, LAMBDA breach : breach.type = "success_rate")

\* C29: for a non-empty breach list determine_severity returns what the breach
\* percentage of the list's success_rate breaches alone is classified as, and
\* for a list without success_rate breaches what the percentage 0 is classified
\* as, whatever other breaches the list holds.
C29_SeverityOfRateBreachesOnly ==
    (Classified /\ last.breaches # <<>>) =>
        LET levels == alert_config.alert_severity_levels
            rates == RateBreaches(last.breaches)
        IN  /\ last.ret = classify(levels, breach_percentage(rates))
            /\ rates = <<>> => last.ret = classify(levels, Pct(0, 1))

\* Under levels that start at 5 per cent, a list that holds a failed_expectations
\* breach of a count a third above its threshold and no success_rate breach,
\* classified as the percentage 0 is: no severity
C29_Witness ==
    /\ Classified
    /\ alert_config.alert_severity_levels = SensitiveSeverityLevels
    /\ last.breaches # <<>>
    /\ RateBreaches(last.breaches) = <<>>
    /\ \E i \in 1 .. Len(last.breaches) :
          /\ last.breaches[i].type = "failed_expectations"
          /\ last.breaches[i].threshold = 3 /\ last.breaches[i].actual = 4
    /\ last.ret = None

----------------------------------------------------------------------------
(* The escalation scheduler: AlertRecords, evaluations and the periodic      *)
(* sweep.  The clock counts minutes.                                         *)

MaxMinutes == 4     \* the clock runs from 0 to MaxMinutes minutes
MaxAlerts == 4      \* AlertRecords created in one run of the model

MinutesPerDay == 1440

\* An escalation_workflow with delays of one and of two minutes
ShortEscalationLevels ==
    <<[level |-> 1, delay |-> 0], [level |-> 2, delay |-> 1], [level |-> 3, delay |-> 2]>>

\* The identity of an alert: the scope of a breach and its kind
ScopeKey(breach) ==
    IF breach.level = "global" THEN ""
    ELSE IF breach.level = "layer" THEN breach.layer
    ELSE breach.dataset

AlertId(breach) == <<breach.level, ScopeKey(breach), breach.type>>

BreachedIds(breaches) == {AlertId(breaches[i]) : i \in 1 .. Len(breaches)}

\* The scopes an evaluation of the summary covers: the global scope, and the
\* layers and datasets of the summary that have a rule
EvaluatedScopes(at, summary) ==
    {<<"global", "">>}
    \cup {<<"layer", summary.layers[i].name>> :
             i \in {j \in 1 .. Len(summary.layers) :
                       summary.layers[j].name \in (DOMAIN at) \ {"global", "datasets"}}}
    \cup {<<"dataset", summary.datasets[i].name>> :
             i \in {j \in 1 .. Len(summary.datasets) :
                       summary.datasets[j].name \in DOMAIN at["datasets"]}}

\* An AlertRecord when its first breach is detected: level 1 of the plan
NewRecord(id, severity, t) ==
    [id |-> id, state |-> "OPEN", level |-> 1, severity |-> severity,
     firstTriggeredAt |-> t, acknowledgedLevel |-> 0]

IsOpen(record) == record.state # "RESOLVED"

IsAcknowledged(record) == record.acknowledgedLevel >= record.level

\* A test that would take a record for open only while it is at level 1
has_open_record_at_level_one(records, id) ==
    \E i \in 1 .. Len(records) : records[i].id = id /\ records[i].state = "OPEN"

\* Is there an unresolved record of this identity
has_open_record(records, id) ==
    \E i \in 1 .. Len(records) : records[i].id = id /\ IsOpen(records[i])

\* The records after the evaluation has resolved those whose scope it covered
\* and whose identity it did not find breached
resolve_records(records, scopes, ids) ==
    [i \in 1 .. Len(records) |->
        IF /\ IsOpen(records[i])
           /\ <<records[i].id[1], records[i].id[2]>> \in scopes
           /\ records[i].id \notin ids
            THEN [records[i] EXCEPT !.state = "RESOLVED"]
            ELSE records[i]]

\* The identities for which the evaluation opens a record, in the order of the
\* breach list: those without an unresolved record, when a severity is returned
new_alert_ids(records, breaches, severity) ==
    IF severity = None THEN <<>>
    ELSE SelectSeq([i \in 1 .. Len(breaches) |-> AlertId(breaches[i])],
                   LAMBDA id : ~has_open_record(records, id))

\* An evaluation that would reopen the resolved record of a breached identity
\* instead of opening a new one
open_records_reopening(records, ids, severity, t) ==
    [i \in 1 .. Len(records) |->
        IF \E j \in 1 .. Len(ids) : ids[j] = records[i].id
            THEN NewRecord(records[i].id, severity, t)
            ELSE records[i]]
    \o [j \in 1 .. Len(SelectSeq(ids, LAMBDA id :
                           \A i \in 1 .. Len(records) : records[i].id # id)) |->
           NewRecord(SelectSeq(ids, LAMBDA id :
                         \A i \in 1 .. Len(records) : records[i].id # id)[j],
                     severity, t)]

\* The records after the evaluation has opened one for each new identity
open_records(records, ids, severity, t) ==
    records \o [j \in 1 .. Len(ids) |-> NewRecord(ids[j], severity, t)]

\* The minute from which the record is due for the level after its own: the
\* delays of the plan up to that level, counted from firstTriggeredAt
RECURSIVE DelayUpTo(_, _)
DelayUpTo(levels, k) == IF k = 0 THEN 0 ELSE levels[k].delay + DelayUpTo(levels, k - 1)

\* A test that would let a record advance without waiting for the delay
escalation_due_at_once(levels, record, t) ==
    /\ IsOpen(record)
    /\ ~IsAcknowledged(record)
    /\ record.level < Len(levels)

\* Does the sweep at minute t advance the record
escalation_due(levels, record, t) ==
    /\ IsOpen(record)
    /\ ~IsAcknowledged(record)
    /\ record.level < Len(levels)
    /\ t >= record.firstTriggeredAt + DelayUpTo(levels, record.level + 1)

\* A sweep that would advance no record when the notification is not delivered
sweep_blocked_by_failure(levels, records, t, delivered) ==
    [i \in 1 .. Len(records) |->
        IF delivered /\ escalation_due(levels, records[i], t)
            THEN [records[i] EXCEPT !.state = "ESCALATED", !.level = @ + 1]
            ELSE records[i]]

\* The records after the sweep at minute t: each due record is one level higher,
\* whether or not the notification of that level's contacts was delivered
sweep(levels, records, t, delivered) ==
    [i \in 1 .. Len(records) |->
        IF escalation_due(levels, records[i], t)
            THEN [records[i] EXCEPT !.state = "ESCALATED", !.level = @ + 1]
            ELSE records[i]]

\* A pruning that would keep the first max_entries entries, the oldest ones
prune_max_entries_oldest(history, max_entries) ==
    IF Len(history) > max_entries
        THEN IF max_entries > 0 THEN SubSeq(history, 1, max_entries)
             ELSE IF max_entries = 0 THEN history
             ELSE SubSeq(history, 1 - max_entries, Len(history))
        ELSE history

\* _save_alert_history, lines 274-275: the slice alert_history[-max_entries:] of
\* a history longer than max_entries is the last max_entries entries when
\* max_entries is positive, the whole list when it is 0, and the list without
\* its first -max_entries entries when it is negative.
prune_max_entries(history, max_entries) ==
    IF Len(history) > max_entries
        THEN IF max_entries > 0
                 THEN SubSeq(history, Len(history) - max_entries + 1, Len(history))
             ELSE IF max_entries = 0 THEN history
             ELSE SubSeq(history, 1 - max_entries, Len(history))
        ELSE history

\* _save_alert_history, lines 277-282: with a positive retention_days, the
\* entries whose timestamp is not before the cutoff, t less retention_days
prune_retention(history, retention_days, t) ==
    IF retention_days > 0
        THEN SelectSeq(history, LAMBDA alert :
                           alert.timestamp >= t - retention_days * MinutesPerDay)
        ELSE history

\* _save_alert_history, lines 270-282: the history as it is written, pruned to
\* max_entries first and to retention_days next
save_alert_history(history, max_entries, retention_days, t) ==
    prune_retention(prune_max_entries(history, max_entries), retention_days, t)

\* The history entries of the records whose state or level the step has changed,
\* and of the records it has added
Transitions(before, after, t) ==
    [j \in 1 .. Len(SelectSeq([i \in 1 .. Len(after) |-> i],
                              LAMBDA i : i > Len(before) \/ after[i] # before[i])) |->
        LET i == SelectSeq([k \in 1 .. Len(after) |-> k],
                           LAMBDA k : k > Len(before) \/ after[k] # before[k])[j]
        IN  [timestamp |-> t, id |-> after[i].id, state |-> after[i].state,
             level |-> after[i].level, severity |-> after[i].severity]]

----------------------------------------------------------------------------
(* SpecEscalation: evaluations of summaries, sweeps and acknowledgements on  *)
(* one alert manager while the clock advances                                *)

InitEscalation ==
    /\ NoOptimizer
    /\ alert_config =
          [alert_thresholds |-> DefaultAlertThresholds,
           alert_severity_levels |-> DefaultSeverityLevels,
           escalation_workflow |-> [levels |-> ShortEscalationLevels],
           alert_history |-> [DefaultAlertHistory EXCEPT !.max_entries = 1]]
    /\ alerts = <<>>
    /\ alert_history = <<>>

\* The summaries evaluated: the global scope and the layers passing; orders not
\* validated, passing, or with too many failed expectations and a success rate
\* just below its threshold (no severity) or far below it (severity high)
EscalationSummaries ==
    [success_rate : {100}, failed_validations : {3},
     layers : {<<PassingLayer("bronze"), PassingLayer("silver"), PassingLayer("gold")>>},
     datasets : {<<>>} \cup {<<DatasetEntry("orders", "bronze", 100, 0)>>}
                \cup {<<DatasetEntry("orders", "bronze", r, 4)>> : r \in {9, 90}}]

\* The history after a step that took the records from before to after
HistoryAfter(before, after) ==
    save_alert_history(alert_history \o Transitions(before, after, now),
                       alert_config.alert_history.max_entries,
                       alert_config.alert_history.retention_days, now)

\* One evaluation cycle: the breaches of the summary and their severity are
\* computed; the unresolved records whose identity is no longer breached are
\* resolved; a record is opened at level 1 for each breached identity that has
\* no unresolved record, unless no severity is returned.  A record is opened
\* only while the clock leaves room for its whole plan.
Evaluate(summary) ==
    LET at == alert_config.alert_thresholds
        levels == alert_config.escalation_workflow.levels
        breaches == check_thresholds(at, summary)
        severity == determine_severity(alert_config.alert_severity_levels, breaches)
        ids == BreachedIds(breaches)
        resolved == resolve_records(alerts, EvaluatedScopes(at, summary), ids)
        opened == new_alert_ids(alerts, breaches, severity)
        after == open_records(resolved, opened, severity, now)
    IN  /\ Len(after) <= MaxAlerts
        /\ opened # <<>> => now + DelayUpTo(levels, Len(levels)) <= MaxMinutes
        /\ alerts' = after
        /\ alert_history' = HistoryAfter(alerts, after)
        /\ last' = [op |-> "evaluate", breached |-> ids]
        /\ UNCHANGED <<optimizerVars, now, alert_config>>

\* The periodic sweep; delivered tells whether the notifications it sends arrive
Sweep(delivered) ==
    LET after == sweep(alert_config.escalation_workflow.levels, alerts, now, delivered)
    IN  /\ alerts' = after
        /\ alert_history' = HistoryAfter(alerts, after)
        /\ last' = [op |-> "sweep", delivered |-> delivered,
                    advanced |-> {i \in 1 .. Len(alerts) : after[i] # alerts[i]}]
        /\ UNCHANGED <<optimizerVars, now, alert_config>>

\* Somebody acknowledges an unresolved record at its level
Acknowledge(i) ==
    /\ IsOpen(alerts[i])
    /\ ~IsAcknowledged(alerts[i])
    /\ alerts' = [alerts EXCEPT ![i].acknowledgedLevel = alerts[i].level]
    /\ last' = [op |-> "acknowledge"]
    /\ UNCHANGED <<optimizerVars, now, alert_config, alert_history>>

\* A minute passes
Minute ==
    /\ now < MaxMinutes
    /\ now' = now + 1
    /\ last' = [op |-> "minute"]
    /\ UNCHANGED <<optimizerVars, alertVars>>

SweepSome == \E delivered \in BOOLEAN : Sweep(delivered)

NextEscalation ==
    \/ \E summary \in EscalationSummaries : Evaluate(summary)
    \/ SweepSome
    \/ \E i \in 1 .. Len(alerts) : Acknowledge(i)
    \/ Minute

SpecEscalation == InitEscalation /\ [][NextEscalation]_vars

\* The sweep runs again and again and the clock does not stop before MaxMinutes
SpecEscalationFair ==
    SpecEscalation /\ WF_vars(SweepSome) /\ WF_vars(Minute)

----------------------------------------------------------------------------
(* The escalation scheduler's claims, under SpecEscalation *)

PlanLevels == alert_config.escalation_workflow.levels

\* The record is open, un-acknowledged and below the last level of the plan
Escalating(record) ==
    /\ IsOpen(record)
    /\ ~IsAcknowledged(record)
    /\ record.level < Len(PlanLevels)

\* The minute at which the delay of the level after the record's own has elapsed
DueAt(record) == record.firstTriggeredAt + DelayUpTo(PlanLevels, record.level + 1)

\* C17: a sweep that runs before the delay of the next level has elapsed leaves
\* an open, un-acknowledged record at its level, and a sweep that runs after the
\* delay has elapsed takes it to the next level, one level and no more.
C17_EscalationTiming ==
    [][last'.op = "sweep" =>
          \A i \in 1 .. Len(alerts) :
              Escalating(alerts[i]) =>
                  /\ now < DueAt(alerts[i]) => alerts'[i].level = alerts[i].level
                  /\ now > DueAt(alerts[i]) => alerts'[i].level = alerts[i].level + 1]_vars

\* A sweep, a minute after the delay of level 2 has elapsed, has taken a record
\* from level 1 to level 2
C17_Witness ==
    /\ last.op = "sweep"
    /\ \E i \in last.advanced :
          /\ alerts[i].level = 2
          /\ now = alerts[i].firstTriggeredAt + PlanLevels[2].delay + 1

AtMostOneOpenPerId ==
    \A i, j \in 1 .. Len(alerts) :
        (IsOpen(alerts[i]) /\ IsOpen(alerts[j]) /\ alerts[i].id = alerts[j].id) => i = j

\* C18: at most one unresolved record exists per identity, and an evaluation
\* that finds the identity of an unresolved record still breached leaves that
\* record as it is: same level, same firstTriggeredAt.
C18_StableIdentity ==
    /\ []AtMostOneOpenPerId
    /\ [][last'.op = "evaluate" =>
             \A i \in 1 .. Len(alerts) :
                 (IsOpen(alerts[i]) /\ alerts[i].id \in last'.breached)
                     => (Len(alerts') >= i /\ alerts'[i] = alerts[i])]_vars

\* An evaluation has found the identity of a record at level 2 breached again,
\* and that record is the only one of its identity
C18_Witness ==
    /\ last.op = "evaluate"
    /\ \E i \in 1 .. Len(alerts) :
          /\ alerts[i].state = "ESCALATED" /\ alerts[i].level = 2
          /\ alerts[i].id \in last.breached
          /\ \A j \in 1 .. Len(alerts) : alerts[j].id = alerts[i].id => j = i

\* C19: records are never removed; a record changes state or level only by
\* going one level up in a sweep once its delay has elapsed, while unresolved,
\* or by being resolved in an evaluation that does not find its identity
\* breached; a resolved record never changes again; OPEN is level 1 and every
\* new record is OPEN, so that a breach after a resolution opens a new record.
C19_StateMachine ==
    /\ [](\A i \in 1 .. Len(alerts) :
             /\ alerts[i].state \in {"OPEN", "ESCALATED", "RESOLVED"}
             /\ alerts[i].state = "OPEN" => alerts[i].level = 1)
    /\ [][/\ Len(alerts') >= Len(alerts)
          /\ \A i \in 1 .. Len(alerts) :
                /\ alerts'[i].id = alerts[i].id
                /\ alerts'[i].firstTriggeredAt = alerts[i].firstTriggeredAt
                /\ \/ /\ alerts'[i].state = alerts[i].state
                      /\ alerts'[i].level = alerts[i].level
                   \/ /\ IsOpen(alerts[i])
                      /\ alerts'[i].state = "ESCALATED"
                      /\ alerts'[i].level = alerts[i].level + 1
                      /\ last'.op = "sweep"
                      /\ now >= DueAt(alerts[i])
                   \/ /\ IsOpen(alerts[i])
                      /\ alerts'[i].state = "RESOLVED"
                      /\ alerts'[i].level = alerts[i].level
                      /\ last'.op = "evaluate"
                      /\ alerts[i].id \notin last'.breached
          /\ \A i \in Len(alerts) + 1 .. Len(alerts') :
                /\ alerts'[i].state = "OPEN" /\ alerts'[i].level = 1
                /\ alerts'[i].id \in last'.breached]_vars

\* A record resolved at level 2 and, of the same identity, a later record that
\* is open at level 1
C19_Witness ==
    \E i, j \in 1 .. Len(alerts) :
        /\ i < j
        /\ alerts[i].id = alerts[j].id
        /\ alerts[i].state = "RESOLVED" /\ alerts[i].level = 2
        /\ alerts[j].state = "OPEN" /\ alerts[j].level = 1

\* Every record is resolved, acknowledged or at the last level of the plan
AllSettled ==
    \A i \in 1 .. Len(alerts) :
        \/ ~IsOpen(alerts[i])
        \/ IsAcknowledged(alerts[i])
        \/ alerts[i].level = Len(PlanLevels)

\* C20: under fair sweeps every record that stays breached and un-acknowledged
\* reaches the last level of the plan, so that in the end no record is left
\* open, un-acknowledged and below the last level; and a sweep whose
\* notifications are not delivered still takes every record whose delay has
\* elapsed one level up.
C20_EscalationProgress ==
    /\ <>[]AllSettled
    /\ [][(last'.op = "sweep" /\ ~last'.delivered) =>
             \A i \in 1 .. Len(alerts) :
                 (Escalating(alerts[i]) /\ now > DueAt(alerts[i]))
                     => alerts'[i].level = alerts[i].level + 1]_vars

\* A sweep whose notifications were not delivered has taken a record to the
\* last level of the plan
C20_Witness ==
    /\ last.op = "sweep" /\ ~last.delivered
    /\ \E i \in last.advanced :
          /\ alerts[i].level = Len(PlanLevels)
          /\ IsOpen(alerts[i]) /\ ~IsAcknowledged(alerts[i])

----------------------------------------------------------------------------
(* SpecRun: the commands of src/main.py run again and again: validate        *)
(* (run_validation), which calls the validation of the layer, and optimize    *)
(* (run_optimized_validation), which constructs an optimizer of its own,      *)
(* whose dictionaries and cache are empty and whose configuration is the one  *)
(* stored in optimization_config.json; the optimizer of the run before is     *)
(* gone.  With --report a run writes a report of its outcome, and with        *)
(* --alerts it has the alert manager evaluate the summary of its outcome,     *)
(* before it returns; the alert records and their history outlive the run.    *)

\* The choices of --layer (main.py line 285), and a layer that is none of them
RunLayers == {"bronze", "silver", "gold"}
InvalidLayers == {"platinum"}

\* AlertRecords the alert manager holds before the runs of the model stop adding
\* to them; a run whose validation failed opens five
MaxRunAlerts == 5

\* The frames at --data-path: one of which the rules of the suite hold, and one
\* that differs from it in row count, schema and content, of which they do not
RunFrames ==
    {[rows |-> 100, schema |-> 1, content |-> 1],
     [rows |-> 105, schema |-> 2, content |-> 2]}

\* The selective_validation sections the configuration file may hold: the
\* default, the default with skip_unchanged_data off, and the default disabled
RunConfigs ==
    {DefaultSelective,
     [DefaultSelective EXCEPT !.skip_unchanged_data = FALSE],
     [DefaultSelective EXCEPT !.enabled = FALSE]}

\* No run has been made and no optimizer exists; the alert manager has the
\* thresholds, severity levels, escalation levels and history limits of
\* DEFAULT_CONFIG, and no record
InitRun ==
    /\ config \in {[selective_validation |-> sv, caching |-> DefaultCaching] :
                      sv \in RunConfigs}
    /\ InitOptimizer
    /\ InitWorkers
    /\ alert_config =
          [alert_thresholds |-> DefaultAlertThresholds,
           alert_severity_levels |-> DefaultSeverityLevels,
           escalation_workflow |-> [levels |-> DefaultEscalationLevels],
           alert_history |-> DefaultAlertHistory]
    /\ alerts = <<>>
    /\ alert_history = <<>>

\* Lines 94, 171 and 193-199, outside any try: setup_validation_environment (of
\* either command) or the creation of the expectations (of optimize) raises, and
\* so does the call; nothing is returned
RunRaises(w) ==
    /\ pc[w] \in {"idle", "done"}
    /\ pc' = [pc EXCEPT ![w] = "done"]
    /\ task' = [task EXCEPT ![w] = NoTask]
    /\ status' = [status EXCEPT ![w] = [status |-> "raised"]]
    /\ UNCHANGED <<config, alertVars, storeVars, cacheVars, now, last>>

\* Lines 97-102 and 174-179: the frame cannot be loaded; the run, of either
\* command, returns status "error" before anything is validated
RunLoadFails(w) ==
    /\ pc[w] \in {"idle", "done"}
    /\ pc' = [pc EXCEPT ![w] = "done"]
    /\ task' = [task EXCEPT ![w] = NoTask]
    /\ status' = [status EXCEPT ![w] = [status |-> "error"]]
    /\ UNCHANGED <<config, alertVars, storeVars, cacheVars, now, last>>

\* Lines 126-128 and 182-190: the layer is none of bronze, silver and gold; the
\* run, of either command, returns status "error" before anything is validated
RunInvalidLayer(w, layer) ==
    /\ pc[w] \in {"idle", "done"}
    /\ layer \notin RunLayers
    /\ pc' = [pc EXCEPT ![w] = "done"]
    /\ task' = [task EXCEPT ![w] = NoTask]
    /\ status' = [status EXCEPT ![w] = [status |-> "error"]]
    /\ UNCHANGED <<config, alertVars, storeVars, cacheVars, now, last>>

\* Lines 174-206: the frame is loaded, the suite named, a new ValidationOptimizer
\* constructed (line 203; __init__ leaves its dictionaries and cache empty) and
\* its optimize_validation entered
RunOptimizedValidation(w, layer, dataset, df, report, alert) ==
    /\ pc[w] \in {"idle", "done"}
    /\ layer \in RunLayers
    /\ row_counts' = EmptyDict
    /\ schema_hashes' = EmptyDict
    /\ data_hashes' = EmptyDict
    /\ cache' = EmptyDict
    /\ cache_order' = <<>>
    /\ pc' = [pc EXCEPT ![w] = "decide"]
    /\ task' = [task EXCEPT ![w] =
                   [NoTask EXCEPT !.layer = layer, !.dataset = dataset,
                                  !.suite = suite_name(layer, dataset),
                                  !.df = df, !.fp = fingerprint(df),
                                  !.report = report, !.alerts = alert]]
    /\ status' = [status EXCEPT ![w] = [status |-> "running"]]
    /\ UNCHANGED <<config, alertVars, now, last>>

\* run_validation, lines 81-104: the frame is loaded and the validation of the
\* layer entered; no optimizer is constructed, and the dictionaries and the cache
\* are not touched
RunValidation(w, layer, dataset, df, report, alert) ==
    /\ pc[w] \in {"idle", "done"}
    /\ layer \in RunLayers
    /\ pc' = [pc EXCEPT ![w] = "validate"]
    /\ task' = [task EXCEPT ![w] =
                   [NoTask EXCEPT !.layer = layer, !.dataset = dataset,
                                  !.suite = suite_name(layer, dataset),
                                  !.df = df, !.fp = fingerprint(df),
                                  !.report = report, !.alerts = alert]]
    /\ status' = [status EXCEPT ![w] = [status |-> "running"]]
    /\ UNCHANGED <<config, alertVars, storeVars, cacheVars, now, last>>

\* run_validation, lines 105-124: validate_bronze_data, validate_silver_data or
\* validate_gold_data returns the outcome of the frame
RunValidates(w) ==
    /\ pc[w] = "validate"
    /\ task' = [task EXCEPT ![w].result = execute(task[w].df)]
    /\ pc' = [pc EXCEPT ![w] = "returned"]
    /\ UNCHANGED <<config, alertVars, storeVars, cacheVars, now, last, status>>

\* run_validation, lines 105-124 and 154-156: the creation of the expectations or
\* the validation of the layer raises inside the try
RunValidationFails(w) ==
    /\ pc[w] = "validate"
    /\ task' = [task EXCEPT ![w].raised = TRUE]
    /\ pc' = [pc EXCEPT ![w] = "returned"]
    /\ UNCHANGED <<config, alertVars, storeVars, cacheVars, now, last, status>>

\* Lines 130 and 154-156, 204-209 and 233-235: the validation raised, or returned
\* no result, of which the next line reads the success flag: the run returns
\* status "error"; otherwise it goes on to the report
RunLogsResult(w) ==
    /\ pc[w] = "returned"
    /\ LET failed == task[w].raised \/ task[w].result = None
       IN  /\ pc' = [pc EXCEPT ![w] = IF failed THEN "done" ELSE "report"]
           /\ status' = [status EXCEPT ![w] =
                            IF failed THEN run_status(task[w].raised, task[w].result)
                            ELSE @]
           /\ task' = [task EXCEPT ![w] = IF failed THEN Returned(@) ELSE @]
    /\ UNCHANGED <<config, alertVars, storeVars, cacheVars, now, last>>

\* Lines 133-137 and 212-216: with --report a ValidationReporter is constructed,
\* given the result, and writes the summary report
RunReport(w) ==
    /\ pc[w] = "report"
    /\ pc' = [pc EXCEPT ![w] = "alerts"]
    /\ UNCHANGED <<config, alertVars, storeVars, cacheVars, now, last, task, status>>

\* Lines 134-136 and 154-156, 213-215 and 233-235: the reporter cannot be
\* constructed or the report not written; the run, which has a result, returns
\* status "error"
RunReportRaises(w) ==
    /\ pc[w] = "report"
    /\ task[w].report
    /\ pc' = [pc EXCEPT ![w] = "done"]
    /\ status' = [status EXCEPT ![w] = [status |-> "error"]]
    /\ task' = [task EXCEPT ![w] = Returned(@)]
    /\ UNCHANGED <<config, alertVars, storeVars, cacheVars, now, last>>

\* The summary of a reporter that holds the one result of the run (lines 141-142
\* and 220-221):
\* one validation, of the layer and the dataset of the run, whose suite has one
\* expectation
run_summary(result, layer, dataset) ==
    LET rate == IF result[2] THEN 100 ELSE 0
        failures == IF result[2] THEN 0 ELSE 1
        entry(name) == IF name = layer
                          THEN [name |-> name, rate |-> rate, failure |-> failures]
                          ELSE IdleLayer(name)
    IN  [success_rate |-> rate, failed_validations |-> failures,
         layers |-> <<entry("bronze"), entry("silver"), entry("gold")>>,
         datasets |-> <<DatasetEntry(dataset, layer, rate, failures)>>]

\* process_validation_results(summary): one evaluation cycle of the alert manager;
\* the records it leaves
process_validation_results(records, summary) ==
    LET at == alert_config.alert_thresholds
        breaches == check_thresholds(at, summary)
        severity == determine_severity(alert_config.alert_severity_levels, breaches)
        resolved == resolve_records(records, EvaluatedScopes(at, summary),
                                    BreachedIds(breaches))
    IN  open_records(resolved, new_alert_ids(records, breaches, severity), severity, now)

\* Lines 140-145 and 219-223: with --alerts a ValidationReporter is constructed,
\* given the result, and its summary evaluated by the alert manager
RunAlerts(w) ==
    /\ pc[w] = "alerts"
    /\ LET after == process_validation_results(
                        alerts, run_summary(task[w].result, task[w].layer,
                                            task[w].dataset))
       IN  IF task[w].alerts
              THEN /\ Len(after) <= MaxRunAlerts
                   /\ alerts' = after
                   /\ alert_history' = HistoryAfter(alerts, after)
              ELSE UNCHANGED <<alerts, alert_history>>
    /\ pc' = [pc EXCEPT ![w] = "return"]
    /\ UNCHANGED <<config, alert_config, storeVars, cacheVars, now, last, task, status>>

\* Lines 141-143 and 154-156, 220-222 and 233-235: the reporter cannot be constructed, or
\* process_validation_results raises, before the evaluation or after it (a
\* notification that cannot be sent); the run returns status "error"
RunAlertsRaises(w, evaluated) ==
    /\ pc[w] = "alerts"
    /\ task[w].alerts
    /\ LET after == process_validation_results(
                        alerts, run_summary(task[w].result, task[w].layer,
                                            task[w].dataset))
       IN  IF evaluated
              THEN /\ Len(after) <= MaxRunAlerts
                   /\ alerts' = after
                   /\ alert_history' = HistoryAfter(alerts, after)
              ELSE UNCHANGED <<alerts, alert_history>>
    /\ pc' = [pc EXCEPT ![w] = "done"]
    /\ status' = [status EXCEPT ![w] = [status |-> "error"]]
    /\ task' = [task EXCEPT ![w] = Returned(@)]
    /\ UNCHANGED <<config, alert_config, storeVars, cacheVars, now, last>>

\* Lines 147-152 and 225-231: the run returns status "success" with the result's
\* success flag
RunReturns(w) ==
    /\ pc[w] = "return"
    /\ pc' = [pc EXCEPT ![w] = "done"]
    /\ status' = [status EXCEPT ![w] = run_status(FALSE, task[w].result)]
    /\ task' = [task EXCEPT ![w] = Returned(@)]
    /\ UNCHANGED <<config, alertVars, storeVars, cacheVars, now, last>>

NextRun ==
    \/ RunRaises(Caller)
    \/ RunLoadFails(Caller)
    \/ \E layer \in InvalidLayers : RunInvalidLayer(Caller, layer)
    \/ \E layer \in RunLayers, dataset \in Datasets, report \in BOOLEAN, alert \in BOOLEAN :
          \E df \in RunFrames :
              \/ RunValidation(Caller, layer, dataset, df, report, alert)
              \/ RunOptimizedValidation(Caller, layer, dataset, df, report, alert)
    \/ RunValidates(Caller)
    \/ RunValidationFails(Caller)
    \/ PipelineStep(Caller)
    \/ RunLogsResult(Caller)
    \/ RunReport(Caller)
    \/ RunReportRaises(Caller)
    \/ RunAlerts(Caller)
    \/ \E evaluated \in BOOLEAN : RunAlertsRaises(Caller, evaluated)
    \/ RunReturns(Caller)

SpecRun == InitRun /\ [][NextRun]_vars

----------------------------------------------------------------------------
(* SpecHistory: entries appended to the alert history and saves of it, day   *)
(* after day, under several alert_history configurations                    *)

MaxDays == 3        \* the clock runs from day 0 to day MaxDays
MaxHistory == 3     \* entries the history holds before it is saved

\* config["alert_history"]: no limit of age or one day; max_entries 0, 1 or 2
AlertHistoryConfigs == [retention_days : {0, 1}, max_entries : {0, 1, 2}]

InitHistory ==
    /\ NoOptimizer
    /\ alert_config \in
          [alert_thresholds : {DefaultAlertThresholds},
           alert_severity_levels : {DefaultSeverityLevels},
           escalation_workflow : {[levels |-> DefaultEscalationLevels]},
           alert_history : AlertHistoryConfigs]
    /\ alerts = <<>>
    /\ alert_history = <<>>

\* The identities of the entries appended
HistoryIds == {<<"global", "", "success_rate">>, <<"layer", "bronze", "success_rate">>}

\* An entry is appended to the history, stamped with the time of the append
AppendAlert(id) ==
    /\ Len(alert_history) < MaxHistory
    /\ alert_history' = Append(alert_history,
                               [timestamp |-> now, id |-> id, state |-> "OPEN",
                                level |-> 1, severity |-> Severity("high")])
    /\ last' = [op |-> "append"]
    /\ UNCHANGED <<optimizerVars, now, alert_config, alerts>>

\* _save_alert_history
SaveAlertHistory ==
    /\ alert_history' = save_alert_history(alert_history,
                                           alert_config.alert_history.max_entries,
                                           alert_config.alert_history.retention_days,
                                           now)
    /\ last' = [op |-> "save", dropped |-> Len(alert_history) - Len(alert_history')]
    /\ UNCHANGED <<optimizerVars, now, alert_config, alerts>>

\* A day passes
Day ==
    /\ now < MaxDays * MinutesPerDay
    /\ now' = now + MinutesPerDay
    /\ last' = [op |-> "day"]
    /\ UNCHANGED <<optimizerVars, alertVars>>

NextHistory ==
    \/ \E id \in HistoryIds : AppendAlert(id)
    \/ SaveAlertHistory
    \/ Day

SpecHistory == InitHistory /\ [][NextHistory]_vars

----------------------------------------------------------------------------
(* The alert history's claims, under SpecHistory *)

\* C21: after every save of the alert history, the history holds at most
\* max_entries entries and, when retention_days is positive, no entry whose
\* timestamp is before now less retention_days.
C21_HistoryRetention ==
    last.op = "save" =>
        /\ Len(alert_history) <= alert_config.alert_history.max_entries
        /\ alert_config.alert_history.retention_days > 0 =>
              \A i \in 1 .. Len(alert_history) :
                  alert_history[i].timestamp >=
                      now - alert_config.alert_history.retention_days * MinutesPerDay

\* The entries of history at the positions of kept, in their order
EntriesAt(history, kept) ==
    LET at == SelectSeq([i \in 1 .. Len(history) |-> i], LAMBDA i : i \in kept)
    IN  [j \in 1 .. Len(at) |-> history[at[j]]]

\* after is history less some entries, each of them no more recent than every
\* entry that is kept
KeepsMostRecent(history, after) ==
    \E kept \in SUBSET (1 .. Len(history)) :
        /\ after = EntriesAt(history, kept)
        /\ \A k \in kept, d \in (1 .. Len(history)) \ kept :
              history[k].timestamp >= history[d].timestamp

\* C25: when a save prunes the history, every entry that is kept is at least as
\* recent as every entry that is dropped, under the max_entries rule and under
\* the retention_days rule, and the history saved is the one that pruning to
\* retention_days first and to max_entries next leaves.
C25_OldestFirstPruning ==
    [][last'.op = "save" =>
          LET h == alert_config.alert_history
          IN  /\ KeepsMostRecent(alert_history,
                                 prune_max_entries(alert_history, h.max_entries))
              /\ KeepsMostRecent(alert_history,
                                 prune_retention(alert_history, h.retention_days, now))
              /\ KeepsMostRecent(alert_history, alert_history')
              /\ alert_history' =
                     prune_max_entries(
                         prune_retention(alert_history, h.retention_days, now),
                         h.max_entries)]_vars

\* A save on day 3 has dropped two entries of a history of three, under a
\* retention of one day and max_entries 1, and has kept an entry of day 2
C25_Witness ==
    /\ last.op = "save" /\ last.dropped = 2
    /\ alert_config.alert_history.retention_days = 1
    /\ alert_config.alert_history.max_entries = 1
    /\ Len(alert_history) = 1
    /\ alert_history[1].timestamp = now - MinutesPerDay
    /\ now = 3 * MinutesPerDay

----------------------------------------------------------------------------
(* The sampling selector: _apply_sampling.  A frame is its row count and its *)
(* columns; the frame returned is the set of the rows it keeps, the rows of  *)
(* a frame of n rows being 0 .. n - 1.                                       *)

\* A float that is the exact fraction num / den, den > 0
Fraction(num, den) == [num |-> num, den |-> den]

\* config["optimization"]["sampling"]: sample_size 0, 0.25, 0.5 or 1.0; a
\* sampling_method that is none of the three; stratify_columns empty, naming a
\* column the frames have not, or naming that column and one they have
SamplingConfigs ==
    [enabled : BOOLEAN,
     threshold_rows : {0, 2},
     sampling_method : {"random", "systematic", "stratified", "cluster"},
     sample_size : {Fraction(0, 1), Fraction(1, 4), Fraction(1, 2), Fraction(1, 1)},
     min_sample_rows : {0, 1, 4, 5},
     stratify_columns : {<<>>, <<"segment">>, <<"segment", "region">>}]

\* The frames sampled: empty, of two rows and of four
SampleFrames == [rows : {0, 2, 4}, columns : {{"order_id", "region"}}]

RowsOf(df) == 0 .. df.rows - 1

\* A selector that would sample a frame of exactly threshold_rows rows too
sampling_skipped_below_threshold(s, row_count) ==
    ~s.enabled \/ row_count < s.threshold_rows

\* _apply_sampling, lines 322-330: is the frame returned as it is
sampling_skipped(s, row_count) ==
    ~s.enabled \/ row_count <= s.threshold_rows

\* _apply_sampling, line 337: max(min_sample_rows, int(row_count * sample_size))
actual_sample_size(s, row_count) ==
    LET sized == (row_count * s.sample_size.num) \div s.sample_size.den
    IN  IF s.min_sample_rows >= sized THEN s.min_sample_rows ELSE sized

\* _apply_sampling, line 338: min(1.0, actual_sample_size / row_count), row_count > 0
actual_fraction(s, row_count) ==
    IF actual_sample_size(s, row_count) >= row_count
        THEN Fraction(1, 1)
        ELSE Fraction(actual_sample_size(s, row_count), row_count)

\* What a call of _apply_sampling comes to: the frame operation that made the
\* frame returned ("df" when the frame is returned as it is), the fraction
\* computed and the rows kept; or the exception raised
Returns(call, fraction, rows) ==
    [raised |-> FALSE, call |-> call, fraction |-> fraction, rows |-> rows]

Raises(exception, fraction) ==
    [raised |-> TRUE, call |-> exception, fraction |-> fraction, rows |-> {}]

\* df.sample(False, fraction): each row is kept with probability fraction, so
\* every row at 1.0, no row at 0.0, and any rows in between
sample_outcomes(df, fraction) ==
    {Returns("sample", fraction, rows) :
        rows \in IF fraction.num >= fraction.den THEN {RowsOf(df)}
                 ELSE IF fraction.num = 0 THEN {{}}
                 ELSE SUBSET RowsOf(df)}

\* _apply_sampling, lines 344-348: line 346 evaluates
\* F.monotonically_increasing_id(), and the module binds no name F (its imports
\* are lines 17-38), so NameError is raised there, before the step
\* int(1 / actual_fraction) of line 347 is computed
systematic_outcomes(df, fraction) == {Raises("NameError", fraction)}

\* The stratify_columns that are columns of the frame (line 358)
valid_stratify_columns(s, df) ==
    SelectSeq(s.stratify_columns, LAMBDA col : col \in df.columns)

\* Line 371: df.sampleBy(valid_stratify_columns, fractions, seed=42) is given a
\* list where pyspark's sampleBy takes one column (a name or a Column), and
\* fractions whose keys are tuples where it takes float, int or str keys: the
\* call raises, TypeError or ValueError by the version of pyspark
sample_by_outcomes(df, fraction) ==
    {Raises("TypeError", fraction), Raises("ValueError", fraction)}

\* A stratified sampling that would fail when it has no column to stratify by
stratified_outcomes_strict(s, df, fraction) ==
    IF valid_stratify_columns(s, df) = <<>>
        THEN {Raises("ValueError", fraction)}
        ELSE sample_by_outcomes(df, fraction)

\* _apply_sampling, lines 349-371: without stratify_columns, or with none that
\* is a column of the frame, df.sample at the fraction; otherwise df.sampleBy
stratified_outcomes(s, df, fraction) ==
    IF s.stratify_columns = <<>> THEN sample_outcomes(df, fraction)
    ELSE IF valid_stratify_columns(s, df) = <<>> THEN sample_outcomes(df, fraction)
    ELSE sample_by_outcomes(df, fraction)

\* _apply_sampling(df): every outcome the call can have.  The division of line
\* 338 raises ZeroDivisionError on an empty frame.
apply_sampling_outcomes(s, df) ==
    IF sampling_skipped(s, df.rows) THEN {Returns("df", Fraction(1, 1), RowsOf(df))}
    ELSE IF df.rows = 0 THEN {Raises("ZeroDivisionError", Fraction(0, 1))}
    ELSE LET fraction == actual_fraction(s, df.rows)
         IN  IF s.sampling_method = "random" THEN sample_outcomes(df, fraction)
             ELSE IF s.sampling_method = "systematic" THEN systematic_outcomes(df, fraction)
             ELSE IF s.sampling_method = "stratified"
                 THEN stratified_outcomes(s, df, fraction)
             ELSE sample_outcomes(df, fraction)

----------------------------------------------------------------------------
(* SpecSampling: one call of _apply_sampling on a new optimizer, under every *)
(* sampling configuration explored                                           *)

InitSampling ==
    /\ config \in {[selective_validation |-> DefaultSelective, caching |-> DefaultCaching,
                    sampling |-> s] : s \in SamplingConfigs}
    /\ InitOptimizer
    /\ InitWorkers
    /\ NoAlertManager

\* optimizer._apply_sampling(df).  The method changes nothing of the optimizer,
\* so one call on a new optimizer shows all that a longer run of calls can.
ApplySampling(df) ==
    /\ last.op = "init"
    /\ \E outcome \in apply_sampling_outcomes(config.sampling, df) :
          last' = [op |-> "apply_sampling", df |-> df, ret |-> outcome]
    /\ UNCHANGED <<config, alertVars, storeVars, cacheVars, now, workerVars>>

NextSampling == \E df \in SampleFrames : ApplySampling(df)

SpecSampling == InitSampling /\ [][NextSampling]_vars

----------------------------------------------------------------------------
(* The sampling selector's claims, under SpecSampling *)

Applied == last.op = "apply_sampling"

\* The call went past the two early returns: sampling enabled, frame above threshold_rows
Sampled ==
    /\ Applied
    /\ config.sampling.enabled
    /\ last.df.rows > config.sampling.threshold_rows

\* C22: for a frame of at most threshold_rows rows, and whenever sampling is
\* disabled, _apply_sampling returns the frame as it is, whatever
\* sampling_method, sample_size and min_sample_rows are.
C22_NoSamplingAtOrBelowThreshold ==
    (Applied /\ (~config.sampling.enabled
                    \/ last.df.rows <= config.sampling.threshold_rows))
        => /\ ~last.ret.raised
           /\ last.ret.call = "df"
           /\ last.ret.rows = RowsOf(last.df)

\* A frame of exactly threshold_rows rows returned as it is under a systematic
\* sampling whose sample size is 0
C22_Witness ==
    /\ Applied
    /\ config.sampling.enabled
    /\ last.df.rows = 2 /\ config.sampling.threshold_rows = 2
    /\ config.sampling.sampling_method = "systematic"
    /\ config.sampling.sample_size.num = 0 /\ config.sampling.min_sample_rows = 0
    /\ last.ret.call = "df" /\ last.ret.rows = {0, 1}

SamplingMethods == {"random", "systematic", "stratified"}

\* C23: when min_sample_rows is at least the row count of a frame above
\* threshold_rows, the fraction is 1.0 and every row of the frame is kept,
\* under each of random, systematic and stratified.
C23_MinimumCoversFrame ==
    (/\ Sampled
     /\ config.sampling.min_sample_rows >= last.df.rows
     /\ config.sampling.sampling_method \in SamplingMethods)
        => /\ ~last.ret.raised
           /\ last.ret.fraction.num = last.ret.fraction.den
           /\ last.ret.rows = RowsOf(last.df)

\* The number of rows asked for, at most the row count
RowsAskedFor ==
    LET s == config.sampling
        sized == (last.df.rows * s.sample_size.num) \div s.sample_size.den
        asked == IF s.min_sample_rows >= sized THEN s.min_sample_rows ELSE sized
    IN  IF asked >= last.df.rows THEN last.df.rows ELSE asked

\* None of the stratify_columns is a column of the frame
NoValidStratifyColumn ==
    \A i \in 1 .. Len(config.sampling.stratify_columns) :
        config.sampling.stratify_columns[i] \notin last.df.columns

\* C24: under stratified sampling, when stratify_columns is empty or names no
\* column of the frame, the frame is sampled as under random, at the fraction
\* computed, and no error is raised.
C24_StratifiedFallback ==
    (Sampled /\ config.sampling.sampling_method = "stratified" /\ NoValidStratifyColumn)
        => /\ ~last.ret.raised
           /\ last.ret.call = "sample"
           /\ last.ret.fraction.num * last.df.rows = RowsAskedFor * last.ret.fraction.den
           /\ last.ret.rows \subseteq RowsOf(last.df)

\* A stratified sampling by a column the frame has not, that has kept two of
\* four rows at the fraction 0.5
C24_Witness ==
    /\ Sampled
    /\ config.sampling.sampling_method = "stratified"
    /\ config.sampling.stratify_columns = <<"segment">>
    /\ last.df.rows = 4
    /\ last.ret.call = "sample"
    /\ last.ret.fraction = Fraction(2, 4)
    /\ last.ret.rows = {1, 2}

\* C28: for every frame above threshold_rows the fraction computed lies in
\* (0, 1], and under systematic sampling the step int(1 / fraction) is computed
\* and the rows are selected without an error.
C28_SystematicStepDefined ==
    Sampled =>
        /\ last.ret.fraction.num > 0
        /\ last.ret.fraction.num <= last.ret.fraction.den
        /\ config.sampling.sampling_method = "systematic" => ~last.ret.raised

====
